---- MODULE Spec2Model ----
(***************************************************************************)
(* Life-Tracker server: habit and prayer completion records, the toggle    *)
(* handlers, and the statistics derived from the records.                  *)
(*                                                                         *)
(* Time is a count of ticks since the epoch; a UTC day has TicksPerDay     *)
(* ticks.  A process evaluates the local-time methods of Date (setHours,   *)
(* getDate, setDate) in its own time zone; a zone is an offset before and  *)
(* an offset after one transition instant (a fixed zone has both equal).   *)
(***************************************************************************)
EXTENDS Integers, FiniteSets, Sequences, TLC

\* ------------------------------------------------------------------ bounds
TicksPerDay == 4
NumDays == 2
MaxOffset == 1
MaxId == 2
MonthsPerYear == 2
DaysPerMonth == 2
StreakWindow == 5

None == "none"

Users == {"u1", "u2"}
HabitIds == {"h1"}
Procs == {"p1", "p2"}
PRAYER_TYPES == {"fajr", "zuhr", "asr", "maghrib", "isha"}

\* Instants a request may carry: any tick of the days 1..NumDays.
FirstTick == TicksPerDay
LastTick == TicksPerDay * (NumDays + 1) - 1
Instants == FirstTick .. LastTick

\* ------------------------------------------------------------- time zones
Offsets == (0 - MaxOffset) .. MaxOffset

\* Offset `before` applies to instants < at, offset `after` from `at` on.
FixedZones == {[before |-> o, after |-> o, at |-> 0] : o \in Offsets}
DstZones ==
    {[before |-> a, after |-> b, at |-> t] :
        a \in Offsets, b \in Offsets, t \in Instants}
TimeZones == FixedZones \cup {z \in DstZones : z.before - z.after \in {-1, 1}}

OffsetAt(z, t) == IF t < z.at THEN z.before ELSE z.after

\* Local wall-clock reading (in ticks) of instant t.
LocalTime(z, t) == t + OffsetAt(z, t)

\* Floor division, also for a negative local reading.
DayOf(x) == IF x >= 0 THEN x \div TicksPerDay
            ELSE 0 - ((TicksPerDay - 1 - x) \div TicksPerDay)

TimeOfDay(x) == x - DayOf(x) * TicksPerDay

\* The instant of a local wall-clock reading.  A reading that occurs twice
\* (offset decreases) or never (offset increases) is interpreted with the
\* offset before the transition.
LocalToUTC(z, l) ==
    IF l - z.before < z.at THEN l - z.before
    ELSE IF l - z.after >= z.at THEN l - z.after
    ELSE l - z.before

\* Date.prototype.setHours(0, 0, 0, 0)
StartOfLocalDay(z, t) == LocalToUTC(z, DayOf(LocalTime(z, t)) * TicksPerDay)

\* Date.prototype.setHours(23, 59, 59, 999): the last tick of the local day.
EndOfLocalDay(z, t) ==
    LocalToUTC(z, DayOf(LocalTime(z, t)) * TicksPerDay + TicksPerDay - 1)

\* current.setDate(current.getDate() + 1): same local time, next local day.
AddLocalDays(z, t, n) == LocalToUTC(z, LocalTime(z, t) + n * TicksPerDay)

\* Date.UTC(y, m, d, 0, 0, 0, 0) of the UTC components of t.
UTCMidnight(t) == DayOf(t) * TicksPerDay

\* habits.js normalizeDate: local start of day of the evaluating process.
HabitNormalizeDate(z, t) == StartOfLocalDay(z, t)

\* prayers.js normalizeDate: UTC start of day.
PrayerNormalizeDate(z, t) == UTCMidnight(t)

\* ------------------------------------------------------------------ state
VARIABLES
    tz,             \* time zone of each server process
    habits,         \* Habit collection
    habitEntries,   \* HabitEntry collection
    prayerEntries,  \* PrayerEntry collection
    streaks,        \* Streak collection (milestones a user reached)
    nextId,         \* next _id / creation stamp the store hands out
    pc,             \* position of each process in its request handler
    loc,            \* the handler's local variables
    alone,          \* no other process wrote to the store since the call began
    last,           \* the toggle call that completed last (history)
    race,           \* two calls in flight on one key (history)
    req,            \* the read-only request being served
    ans,            \* its answer
    script          \* the cleanup script: position, work left, counts, log

vars == <<tz, habits, habitEntries, prayerEntries, streaks, nextId, pc, loc, alone,
          last, race, req, ans, script>>

NoReq == [op |-> None]
NoAns == [op |-> None]

\* The cleanup script before main() is entered.  `loaded` is the result of
\* the find({}) of the pass under way; `missed` counts the deletions of the
\* run that found their record gone (history).
NoScript == [pc |-> "idle", kind |-> None, queue |-> <<>>, total |-> 0,
             duplicateCount |-> 0, deletedCount |-> 0, log |-> <<>>,
             pre |-> [habit |-> {}, prayer |-> {}], runs |-> <<>>,
             loaded |-> {}, missed |-> 0]

NoLoc == [userId |-> None, tid |-> None, date |-> 0, existing |-> {}]

\* ------------------------------------------------------ store collaborator
\* Model.findOne on the three key fields: the matching documents (none or,
\* under the unique index, one).
FindHabitEntry(coll, u, h, d) ==
    {e \in coll : e.userId = u /\ e.habitId = h /\ e.date = d}

FindPrayerEntry(coll, u, pt, d) ==
    {e \in coll : e.userId = u /\ e.prayerType = pt /\ e.date = d}

\* Mutant: the habit is looked up by its _id alone.
FindHabit_AnyOwner(coll, h, u) == {x \in coll : x.id = h}

\* Habit.findOne({ _id, userId })
FindHabit(coll, h, u) == {x \in coll : x.id = h /\ x.userId = u}

\* Model.findByIdAndDelete: removes the document if it is still there.
DeleteById(coll, id) == {e \in coll : e.id # id}

\* Unique index {userId, habitId, date} of HabitEntry.
HabitKeyTaken(coll, u, h, d) == FindHabitEntry(coll, u, h, d) # {}

\* Unique index {userId, date, prayerType} of PrayerEntry.
PrayerKeyTaken(coll, u, pt, d) == FindPrayerEntry(coll, u, pt, d) # {}

NewHabitEntry(id, u, h, d) ==
    [id |-> id, userId |-> u, habitId |-> h, date |-> d, completed |-> TRUE,
     createdAt |-> id]

\* Mutant: the record a toggle creates is not marked as prayed.
NewPrayerEntry_NotPrayed(id, u, pt, d) ==
    [id |-> id, userId |-> u, prayerType |-> pt, date |-> d, prayed |-> FALSE,
     createdAt |-> id]

NewPrayerEntry(id, u, pt, d) ==
    [id |-> id, userId |-> u, prayerType |-> pt, date |-> d, prayed |-> TRUE,
     createdAt |-> id]

\* Completion status of a key: a habit is done when a record is present, a
\* prayer when a record with prayed = true is present.
HabitStatusIn(coll, u, h, d) == HabitKeyTaken(coll, u, h, d)

PrayerStatusIn(coll, u, pt, d) ==
    \E e \in coll : e.userId = u /\ e.prayerType = pt /\ e.date = d /\ e.prayed

StatusIn(hcoll, pcoll, kind, u, t, d) ==
    IF kind = "habit" THEN HabitStatusIn(hcoll, u, t, d)
    ELSE PrayerStatusIn(pcoll, u, t, d)

OnOff(b) == IF b THEN "on" ELSE "off"

\* ------------------------------------------------------ history variables
\* A write of process p ends the solitude of every other call in flight.
AloneAfterWrite(p) ==
    [q \in Procs |-> IF q = p \/ pc[q] = "idle" THEN TRUE ELSE FALSE]

SameKey(r, kind, l) ==
    r.kind = kind /\ r.userId = l.userId /\ r.tid = l.tid /\ r.date = l.date

FoundFlag(existing, flag) ==
    IF existing = {} THEN "absent"
    ELSE IF flag THEN "true" ELSE "false"

\* The record of the toggle call that process p completes: its key, what
\* findOne returned (found), the answer (status, value), whether it ran
\* alone, the status of the key before the write (before) and, when the
\* previous call also ran alone on the same key and this one began after
\* it, the status of the key before that previous call (orig).
LastAfterToggle(p, kind, status, value, flag) ==
    {[kind |-> kind, userId |-> loc[p].userId, tid |-> loc[p].tid,
      date |-> loc[p].date, status |-> status, value |-> value,
      alone |-> alone[p], found |-> FoundFlag(loc[p].existing, flag),
      before |-> OnOff(StatusIn(habitEntries, prayerEntries, kind,
                                loc[p].userId, loc[p].tid, loc[p].date)),
      orig |-> IF /\ alone[p] /\ status = 200
                  /\ \E r \in last : /\ SameKey(r, kind, loc[p])
                                     /\ r.alone /\ r.status = 200
               THEN (CHOOSE r \in last : TRUE).before ELSE None]}

\* Process p reads key l while the other call has read the same key and
\* nothing was written since: both calls saw the same status.
RaceAfterFind(p, kind, l) ==
    IF \E q \in Procs \ {p} :
          /\ pc[q] = (IF kind = "habit" THEN "entryFound" ELSE "prayerFound")
          /\ alone[q]
          /\ loc[q].userId = l.userId /\ loc[q].tid = l.tid
          /\ loc[q].date = l.date
    THEN {[kind |-> kind, userId |-> l.userId, tid |-> l.tid, date |-> l.date,
           pre |-> OnOff(StatusIn(habitEntries, prayerEntries, kind,
                                  l.userId, l.tid, l.date)),
           done |-> 0, ok |-> TRUE, vals |-> {}]}
    ELSE {}

\* A racing call answers.
RaceAfterWrite(status, value) ==
    {[r EXCEPT !.done = r.done + 1, !.ok = r.ok /\ status = 200,
               !.vals = IF status = 200 THEN r.vals \cup {value} ELSE r.vals] :
       r \in race}

\* ------------------------------------------------------------ habits CRUD
\* POST /api/habits: Habit.create (isActive defaults to true).
CreateHabit(u, h) ==
    /\ \A x \in habits : x.id # h
    /\ habits' = habits \cup {[id |-> h, userId |-> u, isActive |-> TRUE]}
    /\ UNCHANGED <<tz, script, streaks, habitEntries, prayerEntries, nextId, pc, loc, alone,
                   last, race, req, ans>>

\* ------------------------------------------------- POST /entries/toggle
\* normalizeDate, then Habit.findOne: 404 when the habit is not the user's.
HabitToggleStart(p, u, h, d) ==
    /\ pc[p] = "idle"
    /\ IF FindHabit(habits, h, u) = {}
       THEN /\ last' = {[kind |-> "habit", userId |-> u, tid |-> h, date |-> 0,
                         status |-> 404, value |-> FALSE, alone |-> TRUE,
                         found |-> None, before |-> None, orig |-> None]}
            /\ UNCHANGED <<pc, loc, alone, race>>
       ELSE /\ pc' = [pc EXCEPT ![p] = "habitChecked"]
            /\ loc' = [loc EXCEPT ![p] =
                         [userId |-> u, tid |-> h,
                          date |-> HabitNormalizeDate(tz[p], d),
                          existing |-> {}]]
            /\ alone' = [alone EXCEPT ![p] = TRUE]
            /\ race' = {}
            /\ UNCHANGED last
    /\ UNCHANGED <<tz, script, streaks, habits, habitEntries, prayerEntries, nextId, req, ans>>

\* HabitEntry.findOne({ userId, habitId, date: normalizedDate })
HabitToggleFind(p) ==
    /\ pc[p] = "habitChecked"
    /\ pc' = [pc EXCEPT ![p] = "entryFound"]
    /\ loc' = [loc EXCEPT ![p].existing =
                 FindHabitEntry(habitEntries, loc[p].userId, loc[p].tid,
                                loc[p].date)]
    /\ race' = RaceAfterFind(p, "habit", loc[p])
    /\ UNCHANGED <<tz, script, streaks, habits, habitEntries, prayerEntries, nextId, alone,
                   last, req, ans>>

\* Mutant: a record with completed = false is switched on, not deleted.
HabitToggleEffect_FlagAware(coll, l, id) ==
    IF l.existing # {}
    THEN LET ex == CHOOSE e \in l.existing : TRUE
         IN IF ex.completed
            THEN [entries |-> DeleteById(coll, ex.id), status |-> 200,
                  completed |-> FALSE, used |-> FALSE]
            ELSE [entries |->
                    {IF e.id = ex.id THEN [e EXCEPT !.completed = TRUE]
                     ELSE e : e \in coll},
                  status |-> 200, completed |-> TRUE, used |-> FALSE]
    ELSE IF HabitKeyTaken(coll, l.userId, l.tid, l.date)
    THEN [entries |-> coll, status |-> 500, completed |-> FALSE,
          used |-> FALSE]
    ELSE [entries |-> coll \cup {NewHabitEntry(id, l.userId, l.tid, l.date)},
          status |-> 200, completed |-> TRUE, used |-> TRUE]

\* Mutant: the toggle-off branch answers but leaves the record in place.
HabitToggleEffect_KeepsRecord(coll, l, id) ==
    IF l.existing # {}
    THEN [entries |-> coll, status |-> 200, completed |-> FALSE,
          used |-> FALSE]
    ELSE IF HabitKeyTaken(coll, l.userId, l.tid, l.date)
    THEN [entries |-> coll, status |-> 500, completed |-> FALSE,
          used |-> FALSE]
    ELSE [entries |-> coll \cup {NewHabitEntry(id, l.userId, l.tid, l.date)},
          status |-> 200, completed |-> TRUE, used |-> TRUE]

\* The branch on existingEntry: what the handler writes and what it answers.
\* [entries, status, completed, used]: the collection after the write, the
\* HTTP status, the `completed` of the answer, whether an _id was consumed.
\* HabitEntry.create on a key the unique index already holds throws, and
\* the catch block answers 500.
HabitToggleEffect(coll, l, id) ==
    IF l.existing # {}
    THEN [entries |-> DeleteById(coll, (CHOOSE e \in l.existing : TRUE).id),
          status |-> 200, completed |-> FALSE, used |-> FALSE]
    ELSE IF HabitKeyTaken(coll, l.userId, l.tid, l.date)
    THEN [entries |-> coll, status |-> 500, completed |-> FALSE,
          used |-> FALSE]
    ELSE [entries |-> coll \cup {NewHabitEntry(id, l.userId, l.tid, l.date)},
          status |-> 200, completed |-> TRUE, used |-> TRUE]

HabitToggleWrite(p) ==
    /\ pc[p] = "entryFound"
    /\ loc[p].existing # {} \/ nextId <= MaxId
    /\ LET eff == HabitToggleEffect(habitEntries, loc[p], nextId)
       IN /\ habitEntries' = eff.entries
          /\ nextId' = IF eff.used THEN nextId + 1 ELSE nextId
          /\ last' = LastAfterToggle(p, "habit", eff.status, eff.completed,
                         \E e \in loc[p].existing : e.completed)
          /\ race' = RaceAfterWrite(eff.status, eff.completed)
    /\ pc' = [pc EXCEPT ![p] = "idle"]
    /\ loc' = [loc EXCEPT ![p] = NoLoc]
    /\ alone' = AloneAfterWrite(p)
    /\ UNCHANGED <<tz, script, streaks, habits, prayerEntries, req, ans>>

\* --------------------------------------------------- POST /prayers/toggle
\* normalizeDate, then PrayerEntry.findOne({ userId, date, prayerType }).
PrayerToggleFind(p, u, pt, d) ==
    /\ pc[p] = "idle"
    /\ LET l == [userId |-> u, tid |-> pt,
                 date |-> PrayerNormalizeDate(tz[p], d),
                 existing |-> FindPrayerEntry(prayerEntries, u, pt,
                                 PrayerNormalizeDate(tz[p], d))]
       IN /\ loc' = [loc EXCEPT ![p] = l]
          /\ race' = RaceAfterFind(p, "prayer", l)
    /\ pc' = [pc EXCEPT ![p] = "prayerFound"]
    /\ alone' = [alone EXCEPT ![p] = TRUE]
    /\ UNCHANGED <<tz, script, streaks, habits, habitEntries, prayerEntries, nextId, last, req,
                   ans>>

\* Mutant: any existing record is deleted, whatever its prayed flag.
PrayerToggleEffect_PresenceOnly(coll, l, id) ==
    IF l.existing # {}
    THEN [entries |-> DeleteById(coll, (CHOOSE e \in l.existing : TRUE).id),
          status |-> 200, prayed |-> FALSE, used |-> FALSE]
    ELSE IF PrayerKeyTaken(coll, l.userId, l.tid, l.date)
    THEN [entries |-> coll, status |-> 500, prayed |-> FALSE, used |-> FALSE]
    ELSE [entries |-> coll \cup {NewPrayerEntry(id, l.userId, l.tid, l.date)},
          status |-> 200, prayed |-> TRUE, used |-> TRUE]

\* The branches on existing and existing.prayed.  existing.save() of a
\* document that is gone throws, and so does a create on a taken key.
PrayerToggleEffect(coll, l, id) ==
    IF l.existing # {}
    THEN LET ex == CHOOSE e \in l.existing : TRUE
         IN IF ex.prayed
            THEN [entries |-> DeleteById(coll, ex.id), status |-> 200,
                  prayed |-> FALSE, used |-> FALSE]
            ELSE IF \E e \in coll : e.id = ex.id
            THEN [entries |->
                    {IF e.id = ex.id THEN [e EXCEPT !.prayed = TRUE] ELSE e :
                       e \in coll},
                  status |-> 200, prayed |-> TRUE, used |-> FALSE]
            ELSE [entries |-> coll, status |-> 500, prayed |-> FALSE,
                  used |-> FALSE]
    ELSE IF PrayerKeyTaken(coll, l.userId, l.tid, l.date)
    THEN [entries |-> coll, status |-> 500, prayed |-> FALSE, used |-> FALSE]
    ELSE [entries |-> coll \cup {NewPrayerEntry(id, l.userId, l.tid, l.date)},
          status |-> 200, prayed |-> TRUE, used |-> TRUE]

PrayerToggleWrite(p) ==
    /\ pc[p] = "prayerFound"
    /\ loc[p].existing # {} \/ nextId <= MaxId
    /\ LET eff == PrayerToggleEffect(prayerEntries, loc[p], nextId)
       IN /\ prayerEntries' = eff.entries
          /\ nextId' = IF eff.used THEN nextId + 1 ELSE nextId
          /\ last' = LastAfterToggle(p, "prayer", eff.status, eff.prayed,
                         \E e \in loc[p].existing : e.prayed)
          /\ race' = RaceAfterWrite(eff.status, eff.prayed)
    /\ pc' = [pc EXCEPT ![p] = "idle"]
    /\ loc' = [loc EXCEPT ![p] = NoLoc]
    /\ alone' = AloneAfterWrite(p)
    /\ UNCHANGED <<tz, script, streaks, habits, habitEntries, req, ans>>

\* ---------------------------------------------------------- specification
\* The deployments explored: every process in UTC, or the second one in a
\* zone one tick behind UTC.
UTC == [before |-> 0, after |-> 0, at |-> 0]
West == [before |-> 0 - 1, after |-> 0 - 1, at |-> 0]
Deployments == {[p \in Procs |-> UTC],
                [p \in Procs |-> IF p = "p1" THEN UTC ELSE West]}

\* The requests explored: the first and the last tick of day 1, and prayer
\* slots fajr and isha.
ToggleInstants == {FirstTick, FirstTick + TicksPerDay - 1}
ToggledPrayers == {"fajr", "isha"}

Init ==
    /\ tz \in Deployments
    /\ habits = {}
    /\ habitEntries = {}
    /\ prayerEntries = {}
    /\ streaks = {}
    /\ nextId = 1
    /\ script = NoScript
    /\ pc = [p \in Procs |-> "idle"]
    /\ loc = [p \in Procs |-> NoLoc]
    /\ alone = [p \in Procs |-> TRUE]
    /\ last = {}
    /\ race = {}
    /\ req = NoReq
    /\ ans = NoAns

Next ==
    \/ \E u \in Users, h \in HabitIds : CreateHabit(u, h)
    \/ \E p \in Procs, u \in Users, h \in HabitIds, d \in ToggleInstants :
          HabitToggleStart(p, u, h, d)
    \/ \E p \in Procs : HabitToggleFind(p)
    \/ \E p \in Procs : HabitToggleWrite(p)
    \/ \E p \in Procs, u \in Users, pt \in ToggledPrayers,
          d \in ToggleInstants : PrayerToggleFind(p, u, pt, d)
    \/ \E p \in Procs : PrayerToggleWrite(p)

Spec == Init /\ [][Next]_vars

\* A store that already holds documents written before this version of the
\* handlers ran (the schemas allow completed = false and prayed = false;
\* such documents carry _ids older than any the model hands out).
LegacyHabits == {[id |-> "h1", userId |-> "u1", isActive |-> TRUE]}
LegacyHabitEntries ==
    {[id |-> 0, userId |-> "u1", habitId |-> "h1", date |-> FirstTick,
      completed |-> FALSE, createdAt |-> 0]}
LegacyPrayerEntries ==
    {[id |-> 0 - 1, userId |-> "u1", prayerType |-> "fajr",
      date |-> FirstTick, prayed |-> FALSE, createdAt |-> 0 - 1]}

\* One server process, in UTC or west of it, serving its requests one at a
\* time on such a store.
Solo == "p1"

InitLegacy ==
    /\ tz \in [Procs -> {UTC, West}]
    /\ habits = LegacyHabits
    /\ habitEntries \in SUBSET LegacyHabitEntries
    /\ prayerEntries \in SUBSET LegacyPrayerEntries
    /\ streaks = {}
    /\ nextId = 1
    /\ script = NoScript
    /\ pc = [p \in Procs |-> "idle"]
    /\ loc = [p \in Procs |-> NoLoc]
    /\ alone = [p \in Procs |-> TRUE]
    /\ last = {}
    /\ race = {}
    /\ req = NoReq
    /\ ans = NoAns

NextSolo ==
    \/ \E u \in Users, h \in HabitIds, d \in ToggleInstants :
          HabitToggleStart(Solo, u, h, d)
    \/ HabitToggleFind(Solo)
    \/ HabitToggleWrite(Solo)
    \/ \E u \in Users, pt \in ToggledPrayers, d \in ToggleInstants :
          PrayerToggleFind(Solo, u, pt, d)
    \/ PrayerToggleWrite(Solo)

SpecLegacy == InitLegacy /\ [][NextSolo]_vars

\* ============================================================ statistics
\* getDatesBetween: from startDate, one local calendar day at a time, while
\* current <= endDate.
RECURSIVE GetDatesBetween(_, _, _)
GetDatesBetween(z, current, endDate) ==
    IF current > endDate THEN <<>>
    ELSE <<current>> \o GetDatesBetween(z, AddLocalDays(z, current, 1), endDate)

\* The values JavaScript gives 0 / 0 and n / 0 for n > 0; Math.round and
\* the multiplication by 100 leave both as they are.
NaN == 0 - 1
Infinity == 0 - 2

\* Math.round((count / total) * 100): the nearest integer, halves upward.
Percentage(count, total) ==
    IF total = 0 THEN (IF count = 0 THEN NaN ELSE Infinity)
    ELSE (200 * count + total) \div (2 * total)

\* percentage >= 75 on a rounded percentage (false for NaN).
HabitSuccess(percentage) ==
    percentage = Infinity \/ (percentage # NaN /\ percentage >= 75)

\* (completedHabits / totalHabits) * 100 >= 75, not rounded.
DaySuccess(completedHabits, totalHabits) ==
    IF totalHabits = 0 THEN completedHabits > 0
    ELSE 100 * completedHabits >= 75 * totalHabits

\* Mutant: the handlers go on to the aggregation without their early
\* return.
NoActiveHabits_Unguarded(totalHabits) == FALSE

\* if (totalHabits === 0) return ...
NoActiveHabits(totalHabits) == totalHabits = 0

ActiveHabits(coll, u) == {x \in coll : x.userId = u /\ x.isActive}

\* One element of `days` of GET /api/habits/stats/daily; `divisors` keeps
\* the divisors of the divisions evaluated for it (history).
HabitDay(z, active, entryKeys, date) ==
    LET normalizedDate == HabitNormalizeDate(z, date)
        completed == {x.id : x \in {y \in active :
                                      <<y.id, normalizedDate>> \in entryKeys}}
        percentage == Percentage(Cardinality(completed), Cardinality(active))
    IN [date |-> normalizedDate,
        completedCount |-> Cardinality(completed),
        total |-> Cardinality(active),
        percentage |-> percentage,
        isSuccessDay |-> HabitSuccess(percentage),
        statuses |-> completed,
        divisors |-> {Cardinality(active)}]

\* GET /api/habits/stats/daily
HabitDailyStats(z, u, startIn, endIn) ==
    LET startDate == HabitNormalizeDate(z, startIn)
        endDate == HabitNormalizeDate(z, endIn)
        active == ActiveHabits(habits, u)
        endDateQuery == EndOfLocalDay(z, endDate)
        entries == {e \in habitEntries :
                      /\ e.userId = u
                      /\ e.date >= startDate /\ e.date <= endDateQuery}
        entryKeys == {<<e.habitId, HabitNormalizeDate(z, e.date)>> :
                        e \in entries}
        dates == GetDatesBetween(z, startDate, endDate)
    IN IF NoActiveHabits(Cardinality(active)) THEN <<>>
       ELSE [i \in 1 .. Len(dates) |-> HabitDay(z, active, entryKeys, dates[i])]

\* One element of `days` of GET /api/prayers/stats/daily.
PrayerDay(z, entries, date) ==
    LET dateKey == PrayerNormalizeDate(z, date)
        prayed == {e.prayerType :
                     e \in {x \in entries :
                              PrayerNormalizeDate(z, x.date) = dateKey}}
    IN [date |-> dateKey,
        completedCount |-> Cardinality(prayed),
        total |-> 5,
        percentage |-> Percentage(Cardinality(prayed), 5),
        isSuccessDay |-> (Cardinality(prayed) = 5),
        statuses |-> prayed,
        divisors |-> {5}]

\* GET /api/prayers/stats/daily
PrayerDailyStats(z, u, startIn, endIn) ==
    LET startDate == PrayerNormalizeDate(z, startIn)
        endDate == PrayerNormalizeDate(z, endIn)
        endDateQuery == EndOfLocalDay(z, endDate)
        entries == {e \in prayerEntries :
                      /\ e.userId = u /\ e.prayed
                      /\ e.date >= startDate /\ e.date <= endDateQuery}
        dates == GetDatesBetween(z, startDate, endDate)
    IN [i \in 1 .. Len(dates) |-> PrayerDay(z, entries, dates[i])]

\* ------------------------------------------------------ monthly overview
\* The calendar: a year has MonthsPerYear months of DaysPerMonth days; the
\* number of the first local day of a month.
FirstOfMonth(year, month) == (year * MonthsPerYear + month) * DaysPerMonth

\* new Date(year, month, day): local midnight of that day of the month
\* (day 0 is the last day of the month before).
LocalDate(z, year, month, day) ==
    LocalToUTC(z, (FirstOfMonth(year, month) + day - 1) * TicksPerDay)

\* successDays of a month: the dates whose count of ids in `doneOn` passes.
SuccessIndexes(dates, Passes(_)) == {i \in 1 .. Len(dates) : Passes(dates[i])}

\* One pass of the month loop of GET /api/habits/stats/monthly (month is
\* 0-based as in the loop).
HabitMonth(z, u, totalHabits, year, month, now) ==
    LET startDate == LocalDate(z, year, month, 1)
        endDate == LocalDate(z, year, month + 1, 0)
        today == StartOfLocalDay(z, now)
        effectiveEndDate == IF endDate > today THEN today ELSE endDate
        entries == {e \in habitEntries :
                      /\ e.userId = u
                      /\ e.date >= startDate /\ e.date <= effectiveEndDate}
        dates == GetDatesBetween(z, startDate, effectiveEndDate)
        CompletedHabits(date) ==
            Cardinality({e.habitId :
                e \in {x \in entries : HabitNormalizeDate(z, x.date) =
                                       HabitNormalizeDate(z, date)}})
        Passes(date) == DaySuccess(CompletedHabits(date), totalHabits)
        successDays == Cardinality(SuccessIndexes(dates, Passes))
        totalDays == Len(dates)
    IN IF startDate > today
       THEN [month |-> month + 1, successDays |-> 0, totalDays |-> 0,
             percentage |-> 0, divisors |-> {}]
       ELSE [month |-> month + 1, successDays |-> successDays,
             totalDays |-> totalDays,
             percentage |-> IF totalDays > 0
                            THEN Percentage(successDays, totalDays) ELSE 0,
             divisors |-> IF totalDays > 0 THEN {totalHabits, totalDays}
                          ELSE {}]

\* GET /api/habits/stats/monthly
HabitMonthlyStats(z, u, year, now) ==
    LET totalHabits == Cardinality(ActiveHabits(habits, u))
    IN IF NoActiveHabits(totalHabits)
       THEN [m \in 1 .. MonthsPerYear |->
               [successDays |-> 0, totalDays |-> 0, percentage |-> 0,
                divisors |-> {}]]
       ELSE [m \in 1 .. MonthsPerYear |->
               HabitMonth(z, u, totalHabits, year, m - 1, now)]

\* One pass of the month loop of GET /api/prayers/stats/monthly.
PrayerMonth(z, u, year, month, now) ==
    LET startDate == LocalDate(z, year, month, 1)
        endDate == LocalDate(z, year, month + 1, 0)
        today == StartOfLocalDay(z, now)
        effectiveEndDate == IF endDate > today THEN today ELSE endDate
        entries == {e \in prayerEntries :
                      /\ e.userId = u /\ e.prayed
                      /\ e.date >= startDate /\ e.date <= effectiveEndDate}
        dates == GetDatesBetween(z, startDate, effectiveEndDate)
        Prayed(date) ==
            Cardinality({e.prayerType :
                e \in {x \in entries : PrayerNormalizeDate(z, x.date) =
                                       PrayerNormalizeDate(z, date)}})
        Passes(date) == Prayed(date) = 5
        successDays == Cardinality(SuccessIndexes(dates, Passes))
        totalDays == Len(dates)
    IN IF startDate > today
       THEN [month |-> month + 1, successDays |-> 0, totalDays |-> 0,
             percentage |-> 0, divisors |-> {}]
       ELSE [month |-> month + 1, successDays |-> successDays,
             totalDays |-> totalDays,
             percentage |-> IF totalDays > 0
                            THEN Percentage(successDays, totalDays) ELSE 0,
             divisors |-> IF totalDays > 0 THEN {totalDays} ELSE {}]

\* GET /api/prayers/stats/monthly
PrayerMonthlyStats(z, u, year, now) ==
    [m \in 1 .. MonthsPerYear |-> PrayerMonth(z, u, year, m - 1, now)]

\* ----------------------------------------------------------------- streaks
NoStreak == [currentStreak |-> 0, longestStreak |-> 0, tempStreak |-> 0,
             streakBroken |-> FALSE]

\* The body of the loop over the days, for one day.
StreakStep(s, isSuccess) ==
    IF isSuccess
    THEN [s EXCEPT !.tempStreak = @ + 1,
                   !.currentStreak = IF s.streakBroken THEN @ ELSE @ + 1]
    ELSE [s EXCEPT !.streakBroken = TRUE,
                   !.longestStreak = IF s.tempStreak > @ THEN s.tempStreak
                                     ELSE @,
                   !.tempStreak = 0]

NormalizeDate(kind, z, t) ==
    IF kind = "habit" THEN HabitNormalizeDate(z, t)
    ELSE PrayerNormalizeDate(z, t)

\* for (i = 0; i < 400; i++) { ...; checkDate.setDate(getDate() - 1) } with
\* StreakWindow days for the 400; successKeys are the date keys of the
\* success days.
RECURSIVE StreakLoop(_, _, _, _, _, _)
StreakLoop(kind, z, checkDate, i, s, successKeys) ==
    IF i >= StreakWindow THEN s
    ELSE StreakLoop(kind, z, AddLocalDays(z, checkDate, 0 - 1), i + 1,
                    StreakStep(s, NormalizeDate(kind, z, checkDate)
                                    \in successKeys),
                    successKeys)

\* The loop from today backwards and the comparison that follows it.
Streaks(kind, z, now, successKeys) ==
    LET s == StreakLoop(kind, z, StartOfLocalDay(z, now), 0, NoStreak,
                        successKeys)
    IN [currentStreak |-> s.currentStreak,
        longestStreak |-> IF s.tempStreak > s.longestStreak
                          THEN s.tempStreak ELSE s.longestStreak]

\* startDate of the streak queries: StreakWindow days back, local midnight.
StreakStart(z, now) ==
    StartOfLocalDay(z, AddLocalDays(z, now, 0 - StreakWindow))

\* GET /api/habits/stats/streak
HabitStreakStats(z, u, now) ==
    LET totalHabits == Cardinality(ActiveHabits(habits, u))
        entries == {e \in habitEntries :
                      e.userId = u /\ e.date >= StreakStart(z, now)}
        keys == {HabitNormalizeDate(z, e.date) : e \in entries}
        CompletedHabits(k) ==
            Cardinality({e.habitId :
                e \in {x \in entries : HabitNormalizeDate(z, x.date) = k}})
        successKeys == {k \in keys : DaySuccess(CompletedHabits(k),
                                                totalHabits)}
        st == Streaks("habit", z, now, successKeys)
    IN IF NoActiveHabits(totalHabits)
       THEN [currentStreak |-> 0, longestStreak |-> 0, milestones |-> {},
             divisors |-> {}]
       ELSE [currentStreak |-> st.currentStreak,
             longestStreak |-> st.longestStreak,
             milestones |-> {x \in streaks : x.userId = u},
             divisors |-> {totalHabits}]

\* GET /api/habits/stats/habit-streaks: for every active habit of the user
\* its own streaks (a function on the ids of the active habits, empty when
\* there is none).
HabitStreaksStats(z, u, now) ==
    LET active == {x.id : x \in ActiveHabits(habits, u)}
        entries == {e \in habitEntries :
                      e.userId = u /\ e.date >= StreakStart(z, now)}
        CompletedDates(h) ==
            {HabitNormalizeDate(z, e.date) :
               e \in {x \in entries : x.habitId = h}}
    IN [h \in active |-> Streaks("habit", z, now, CompletedDates(h))]

MILESTONES == {7, 30, 50, 75, 100, 150, 200, 365}

\* GET /api/prayers/stats/streak
PrayerStreakStats(z, u, now) ==
    LET entries == {e \in prayerEntries :
                      /\ e.userId = u /\ e.prayed
                      /\ e.date >= StreakStart(z, now)}
        keys == {PrayerNormalizeDate(z, e.date) : e \in entries}
        Prayed(k) ==
            Cardinality({e.prayerType :
                e \in {x \in entries : PrayerNormalizeDate(z, x.date) = k}})
        successKeys == {k \in keys : Prayed(k) = 5}
        st == Streaks("prayer", z, now, successKeys)
    IN [currentStreak |-> st.currentStreak,
        longestStreak |-> st.longestStreak,
        milestones |-> {[days |-> m, achieved |-> (st.longestStreak >= m)] :
                          m \in MILESTONES},
        divisors |-> {}]

\* The handlers, serving the request in `req` on process Solo.  The dates
\* of a request are instants, which pass the isISO8601 validators; the
\* daily handlers then answer res.json (status 200) on every path.
ServeNormalize ==
    /\ req.op = "normalize" /\ ans = NoAns
    /\ ans' = [op |-> "normalize",
               habit1 |-> HabitNormalizeDate(tz[Solo], req.t1),
               habit2 |-> HabitNormalizeDate(tz[Solo], req.t2),
               prayer1 |-> PrayerNormalizeDate(tz[Solo], req.t1),
               prayer2 |-> PrayerNormalizeDate(tz[Solo], req.t2)]
    /\ UNCHANGED <<tz, script, streaks, habits, habitEntries, prayerEntries, nextId, pc, loc,
                   alone, last, race, req>>

ServeHabitDaily ==
    /\ req.op = "habitDaily" /\ ans = NoAns
    /\ ans' = [op |-> "habitDaily", status |-> 200,
               days |-> HabitDailyStats(tz[Solo], req.userId, req.start,
                                        req.end)]
    /\ UNCHANGED <<tz, script, streaks, habits, habitEntries, prayerEntries, nextId, pc, loc,
                   alone, last, race, req>>

ServePrayerDaily ==
    /\ req.op = "prayerDaily" /\ ans = NoAns
    /\ ans' = [op |-> "prayerDaily", status |-> 200,
               days |-> PrayerDailyStats(tz[Solo], req.userId, req.start,
                                         req.end)]
    /\ UNCHANGED <<tz, script, streaks, habits, habitEntries, prayerEntries, nextId, pc, loc,
                   alone, last, race, req>>

ServeHabitMonthly ==
    /\ req.op = "habitMonthly" /\ ans = NoAns
    /\ ans' = [op |-> "habitMonthly",
               months |-> HabitMonthlyStats(tz[Solo], req.userId, req.year,
                                            req.now)]
    /\ UNCHANGED <<tz, script, streaks, habits, habitEntries, prayerEntries, nextId, pc, loc,
                   alone, last, race, req>>

ServeHabitStreak ==
    /\ req.op = "habitStreak" /\ ans = NoAns
    /\ ans' = [op |-> "habitStreak",
               streak |-> HabitStreakStats(tz[Solo], req.userId, req.now)]
    /\ UNCHANGED <<tz, script, streaks, habits, habitEntries, prayerEntries, nextId, pc, loc,
                   alone, last, race, req>>

ServeHabitStreaks ==
    /\ req.op = "habitStreaks" /\ ans = NoAns
    /\ ans' = [op |-> "habitStreaks",
               streaks |-> HabitStreaksStats(tz[Solo], req.userId, req.now)]
    /\ UNCHANGED <<tz, script, streaks, habits, habitEntries, prayerEntries, nextId, pc, loc,
                   alone, last, race, req>>

ServePrayerMonthly ==
    /\ req.op = "prayerMonthly" /\ ans = NoAns
    /\ ans' = [op |-> "prayerMonthly",
               months |-> PrayerMonthlyStats(tz[Solo], req.userId, req.year,
                                             req.now)]
    /\ UNCHANGED <<tz, script, streaks, habits, habitEntries, prayerEntries, nextId, pc, loc,
                   alone, last, race, req>>

ServePrayerStreak ==
    /\ req.op = "prayerStreak" /\ ans = NoAns
    /\ ans' = [op |-> "prayerStreak",
               streak |-> PrayerStreakStats(tz[Solo], req.userId, req.now)]
    /\ UNCHANGED <<tz, script, streaks, habits, habitEntries, prayerEntries, nextId, pc, loc,
                   alone, last, race, req>>

\* ----------------------------------------------- stores the requests see
StatHabitIds == {"h1", "h2", "h3", "h4"}
East == [before |-> 1, after |-> 1, at |-> 0]

\* Habit records as toggles of processes in the zones of the model leave
\* them: four habits done on day 1, habit h1 also stored by a process of
\* another zone and on day 2, and a record whose habit is gone.
HabitEntryPool ==
    {[id |-> 1, userId |-> "u1", habitId |-> "h1", date |-> FirstTick,
      completed |-> TRUE, createdAt |-> 1],
     [id |-> 2, userId |-> "u1", habitId |-> "h2", date |-> FirstTick,
      completed |-> TRUE, createdAt |-> 2],
     [id |-> 3, userId |-> "u1", habitId |-> "h3", date |-> FirstTick,
      completed |-> TRUE, createdAt |-> 3],
     [id |-> 4, userId |-> "u1", habitId |-> "h4", date |-> FirstTick,
      completed |-> TRUE, createdAt |-> 4],
     [id |-> 5, userId |-> "u1", habitId |-> "h1", date |-> FirstTick + 1,
      completed |-> TRUE, createdAt |-> 5],
     [id |-> 6, userId |-> "u1", habitId |-> "h1",
      date |-> FirstTick + TicksPerDay, completed |-> TRUE, createdAt |-> 6],
     [id |-> 7, userId |-> "u1", habitId |-> "h0", date |-> FirstTick,
      completed |-> TRUE, createdAt |-> 7]}

HabitPool(activeIds) ==
    {[id |-> h, userId |-> "u1", isActive |-> (h \in activeIds)] :
       h \in StatHabitIds}

\* Prayer records: the five slots of day 1, a second fajr record of day 1
\* at a date that is not UTC midnight, a zuhr record with prayed = false,
\* and a fajr record of day 2.
PrayerEntryPool ==
    {[id |-> 10 + i, userId |-> "u1",
      prayerType |-> <<"fajr", "zuhr", "asr", "maghrib", "isha">>[i],
      date |-> FirstTick, prayed |-> TRUE, createdAt |-> 10 + i] :
       i \in 1 .. 5}
    \cup
    {[id |-> 16, userId |-> "u1", prayerType |-> "fajr",
      date |-> FirstTick + 1, prayed |-> TRUE, createdAt |-> 16],
     [id |-> 17, userId |-> "u1", prayerType |-> "zuhr", date |-> FirstTick,
      prayed |-> FALSE, createdAt |-> 17],
     [id |-> 18, userId |-> "u1", prayerType |-> "fajr",
      date |-> FirstTick + TicksPerDay, prayed |-> TRUE, createdAt |-> 18],
     [id |-> 19, userId |-> "u2", prayerType |-> "asr", date |-> FirstTick,
      prayed |-> TRUE, createdAt |-> 19]}

UniquePrayerKeys(coll) ==
    \A e1, e2 \in coll :
        (/\ e1.userId = e2.userId /\ e1.prayerType = e2.prayerType
         /\ e1.date = e2.date) => e1 = e2

DayStarts == {d * TicksPerDay : d \in 1 .. NumDays}

\* A request over any range in any zone on a small store, or over the days
\* of the pools in a fixed zone on any store drawn from the pools.
StatScenario(op) ==
    \/ /\ tz \in [Procs -> TimeZones]
       /\ tz["p2"] = UTC
       /\ req \in [op : {op}, userId : {"u1"}, start : Instants,
                   end : Instants]
       /\ habits \in {HabitPool({"h1"}), HabitPool({"h1", "h2"})}
       /\ habitEntries \in {{}, {e \in HabitEntryPool : e.id = 1}}
       /\ prayerEntries \in {{}, {e \in PrayerEntryPool : e.id = 11}}
    \/ /\ tz \in [Procs -> {UTC, West, East}]
       /\ tz["p2"] = UTC
       /\ req \in [op : {op}, userId : {"u1"}, start : DayStarts,
                   end : DayStarts]
       /\ IF op = "habitDaily"
          THEN /\ habits \in {HabitPool(a) : a \in SUBSET StatHabitIds}
               /\ habitEntries \in SUBSET HabitEntryPool
               /\ prayerEntries = {}
          ELSE /\ habits = {}
               /\ habitEntries = {}
               /\ prayerEntries \in
                    {c \in SUBSET PrayerEntryPool : UniquePrayerKeys(c)}

\* The years a monthly overview is asked for, and the milestones a user
\* may have recorded.
Years == {0, 1}
StreakPool ==
    {[userId |-> "u1", milestone |-> 30], [userId |-> "u2", milestone |-> 50]}

\* A monthly overview or a streak request at any instant in any zone.
ClockScenario(op) ==
    /\ tz \in [Procs -> TimeZones]
    /\ tz["p2"] = UTC
    /\ req \in IF op \in {"habitMonthly", "prayerMonthly"}
               THEN [op : {op}, userId : {"u1"}, year : Years, now : Instants]
               ELSE [op : {op}, userId : {"u1"}, now : Instants]
    /\ IF op \in {"habitMonthly", "habitStreak"}
       THEN /\ habits \in {HabitPool({}), HabitPool({"h1"})}
            /\ habitEntries \in {{}, {e \in HabitEntryPool : e.id = 1},
                                 {e \in HabitEntryPool : e.id \in {1, 6, 7}},
                                 {e \in HabitEntryPool : e.id \in {6, 7}}}
            /\ prayerEntries = {}
       ELSE /\ habits = {}
            /\ habitEntries = {}
            /\ prayerEntries \in {{}, {e \in PrayerEntryPool : e.id <= 15},
                                  {e \in PrayerEntryPool : e.id <= 14}}
    /\ streaks \in IF op = "habitStreak" THEN {{}, StreakPool} ELSE {{}}

InitStats ==
    /\ \/ /\ tz \in [Procs -> TimeZones]
          /\ tz["p2"] = UTC
          /\ req \in {r \in [op : {"normalize"}, t1 : Instants, t2 : Instants] :
                        DayOf(r.t1) = DayOf(r.t2)}
          /\ habits = {} /\ habitEntries = {} /\ prayerEntries = {}
          /\ streaks = {}
       \/ StatScenario("habitDaily") /\ streaks = {}
       \/ StatScenario("prayerDaily") /\ streaks = {}
       \/ \E op \in {"habitMonthly", "habitStreak", "prayerMonthly",
                     "prayerStreak"} : ClockScenario(op)
    /\ nextId = 1
    /\ script = NoScript
    /\ pc = [p \in Procs |-> "idle"]
    /\ loc = [p \in Procs |-> NoLoc]
    /\ alone = [p \in Procs |-> TRUE]
    /\ last = {}
    /\ race = {}
    /\ ans = NoAns

NextStats ==
    \/ ServeNormalize
    \/ ServeHabitDaily
    \/ ServePrayerDaily
    \/ ServeHabitMonthly
    \/ ServeHabitStreak
    \/ ServePrayerMonthly
    \/ ServePrayerStreak

SpecStats == InitStats /\ [][NextStats]_vars

\* ------------------------------------------------------ streak requests
\* The streak handlers asked on the first or the last tick of UTC day
\* StreakToday, in a zone with one offset throughout or with a transition
\* at the UTC midnight of the day before.
StreakToday == StreakWindow + 1
StreakNows == {StreakToday * TicksPerDay,
               StreakToday * TicksPerDay + TicksPerDay - 1}
StreakDays == 0 .. StreakToday + 1
StreakZones ==
    FixedZones \cup
    {z \in [before : Offsets, after : Offsets,
            at : {(StreakToday - 1) * TicksPerDay}] :
        z.before - z.after \in {0 - 1, 1}}

\* The records toggles of a process in zone z leave for habit h on the
\* local days D.
HabitRecordsOn(z, h, base, D) ==
    {[id |-> base + d, userId |-> "u1", habitId |-> h,
      date |-> HabitNormalizeDate(z, LocalToUTC(z, d * TicksPerDay)),
      completed |-> TRUE, createdAt |-> base + d] : d \in D}

\* The records prayer toggles leave for the slots `slots` on the UTC days D.
PrayerRecordsOn(slots, D) ==
    {[id |-> 100 * d + i, userId |-> "u1",
      prayerType |-> <<"fajr", "zuhr", "asr", "maghrib", "isha">>[i],
      date |-> PrayerNormalizeDate(UTC, d * TicksPerDay), prayed |-> TRUE,
      createdAt |-> 100 * d + i] :
       d \in D, i \in {j \in 1 .. 5 :
                         <<"fajr", "zuhr", "asr", "maghrib", "isha">>[j]
                           \in slots}}

StreakScenario(op) ==
    /\ tz \in [Procs -> StreakZones]
    /\ tz["p2"] = UTC
    /\ req \in [op : {op}, userId : {"u1"}, now : StreakNows]
    /\ IF op \in {"habitStreak", "habitStreaks"}
       THEN /\ habits \in {HabitPool({"h1"}), HabitPool({"h1", "h2"})}
            /\ \E D \in SUBSET StreakDays, X \in {{}, {StreakToday}} :
                  habitEntries = HabitRecordsOn(tz[Solo], "h1", 100, D)
                                 \cup HabitRecordsOn(tz[Solo], "h3", 200, X)
            /\ prayerEntries = {}
       ELSE /\ habits = {}
            /\ habitEntries = {}
            /\ \E D \in SUBSET StreakDays,
                  slots \in {PRAYER_TYPES, PRAYER_TYPES \ {"isha"}} :
                  prayerEntries = PrayerRecordsOn(slots, D)
    /\ streaks = {}

InitStreaks ==
    /\ \E op \in {"habitStreak", "habitStreaks", "prayerStreak"} :
          StreakScenario(op)
    /\ nextId = 1
    /\ script = NoScript
    /\ pc = [p \in Procs |-> "idle"]
    /\ loc = [p \in Procs |-> NoLoc]
    /\ alone = [p \in Procs |-> TRUE]
    /\ last = {}
    /\ race = {}
    /\ ans = NoAns

NextStreaks == ServeHabitStreak \/ ServeHabitStreaks \/ ServePrayerStreak

SpecStreaks == InitStreaks /\ [][NextStreaks]_vars

\* ======================================================== cleanup script
\* cleanup-duplicate-entries.js: main() connects, runs cleanupHabitEntries,
\* then cleanupPrayerEntries, and exits; any exception ends it in the catch
\* of main() with exit code 1.
MaxRuns == 2

\* The key the script groups by: user, habit or prayer slot, and the UTC
\* midnight of the record's date (its own normalizeDate).
Tid(kind, e) == IF kind = "habit" THEN e.habitId ELSE e.prayerType

\* Mutant: the key leaves the day out.
GroupKey_NoDay(kind, e) == <<e.userId, Tid(kind, e), 0>>

GroupKey(kind, e) == <<e.userId, Tid(kind, e), UTCMidnight(e.date)>>

\* groups: the records of the collection by key.
Groups(kind, coll) ==
    {{x \in coll : GroupKey(kind, x) = GroupKey(kind, e)} : e \in coll}

DuplicateGroups(kind, coll) ==
    {g \in Groups(kind, coll) : Cardinality(g) > 1}

\* The order groupEntries.sort((a, b) => bTime - aTime) leaves: newest
\* first; the sort is stable, so records of equal creation time stay in
\* the order of the query, find({}).sort({ date: 1 }).
SortsBefore(a, b) ==
    \/ a.createdAt > b.createdAt
    \/ a.createdAt = b.createdAt /\ a.date < b.date

\* Mutant: the pass keeps the oldest record of a group.
ToKeep_Oldest(g) == CHOOSE x \in g : \A y \in g \ {x} : SortsBefore(y, x)

\* groupEntries[0]
ToKeep(g) == CHOOSE x \in g : \A y \in g \ {x} : SortsBefore(x, y)

\* groupEntries.slice(1), in order; the first one is marked.
RECURSIVE InSortOrder(_, _)
InSortOrder(g, first) ==
    IF g = {} THEN <<>>
    ELSE LET x == ToKeep(g)
         IN <<[id |-> x.id, first |-> first]>> \o InSortOrder(g \ {x}, FALSE)

\* Mutant: the pass deletes one record of each duplicate group only.
ToDelete_One(g) ==
    LET all == InSortOrder(g \ {ToKeep(g)}, TRUE) IN <<all[1]>>

ToDelete(g) == InSortOrder(g \ {ToKeep(g)}, TRUE)

\* The date of the record that enters the group into the Map.
FirstDate(g) == CHOOSE d \in {x.date : x \in g} : \A x \in g : d <= x.date

\* The orders in which groups.entries() may yield the duplicate groups:
\* by the date of their first record; the query leaves the order of
\* records of equal date open.
GroupOrders(G) ==
    {s \in [1 .. Cardinality(G) -> G] :
        /\ \A i, j \in 1 .. Cardinality(G) : i # j => s[i] # s[j]
        /\ \A i, j \in 1 .. Cardinality(G) :
              i < j => FirstDate(s[i]) <= FirstDate(s[j])}

RECURSIVE Deletions(_, _)
Deletions(order, i) ==
    IF i > Len(order) THEN <<>>
    ELSE ToDelete(order[i]) \o Deletions(order, i + 1)

\* The deletions one pass over the collection will make, in order.
DeletionQueues(kind, coll) ==
    {Deletions(o, 1) : o \in GroupOrders(DuplicateGroups(kind, coll))}

\* Mutant: the summary reports the groups as the records deleted.
Summary_GroupsAsDeleted(sc) ==
    [kind |-> sc.kind, total |-> sc.total,
     duplicateCount |-> sc.duplicateCount,
     deletedCount |-> sc.duplicateCount,
     remaining |-> sc.total - sc.deletedCount]

\* The summary a pass logs when its loop is over.
Summary(sc) ==
    [kind |-> sc.kind, total |-> sc.total,
     duplicateCount |-> sc.duplicateCount,
     deletedCount |-> sc.deletedCount,
     remaining |-> sc.total - sc.deletedCount]

Finished(sc, outcome, log) ==
    Append(sc.runs, [outcome |-> outcome, log |-> log, pre |-> sc.pre,
                     post |-> [habit |-> habitEntries,
                               prayer |-> prayerEntries]])

ScriptFrame ==
    UNCHANGED <<tz, habits, streaks, nextId, pc, loc, alone, last, race,
                req, ans>>

\* main(): connect, then the query and the grouping of cleanupHabitEntries.
MainStart ==
    /\ script.pc \in {"idle", "done", "failed"}
    /\ Len(script.runs) < MaxRuns
    /\ \E q \in DeletionQueues("habit", habitEntries) :
          script' = [script EXCEPT
                       !.pc = "habits", !.kind = "habit", !.queue = q,
                       !.total = Cardinality(habitEntries),
                       !.duplicateCount = 0, !.deletedCount = 0,
                       !.log = <<>>,
                       !.pre = [habit |-> habitEntries,
                                prayer |-> prayerEntries],
                       !.loaded = habitEntries, !.missed = 0]
    /\ UNCHANGED <<habitEntries, prayerEntries>>
    /\ ScriptFrame

\* main(): mongoose.connect throws.
MainConnectFails ==
    /\ script.pc \in {"idle", "done", "failed"}
    /\ Len(script.runs) < MaxRuns
    /\ script' = [script EXCEPT
                    !.pc = "failed", !.queue = <<>>, !.log = <<>>,
                    !.runs = Append(@,
                       [outcome |-> "noConnection", log |-> <<>>,
                        pre |-> [habit |-> habitEntries,
                                 prayer |-> prayerEntries],
                        post |-> [habit |-> habitEntries,
                                  prayer |-> prayerEntries]])]
    /\ UNCHANGED <<habitEntries, prayerEntries>>
    /\ ScriptFrame

\* await Model.findByIdAndDelete(entry._id); deletedCount++
CleanupDelete ==
    /\ script.pc \in {"habits", "prayers"}
    /\ script.queue # <<>>
    /\ LET h == Head(script.queue)
       IN /\ IF script.pc = "habits"
             THEN /\ habitEntries' = DeleteById(habitEntries, h.id)
                  /\ UNCHANGED prayerEntries
             ELSE /\ prayerEntries' = DeleteById(prayerEntries, h.id)
                  /\ UNCHANGED habitEntries
          /\ script' = [script EXCEPT
                          !.queue = Tail(@),
                          !.deletedCount = @ + 1,
                          !.missed =
                             IF \/ /\ script.pc = "habits"
                                      /\ \E e \in habitEntries : e.id = h.id
                                   \/ /\ script.pc = "prayers"
                                      /\ \E e \in prayerEntries : e.id = h.id
                             THEN @ ELSE @ + 1,
                          !.duplicateCount = IF h.first THEN @ + 1 ELSE @]
    /\ ScriptFrame

\* findByIdAndDelete throws: the exception leaves the pass and is caught in
\* main(), which logs the error and exits with code 1.
CleanupDeleteFails ==
    /\ script.pc \in {"habits", "prayers"}
    /\ script.queue # <<>>
    /\ script' = [script EXCEPT
                    !.pc = "failed", !.queue = <<>>,
                    !.runs = Finished(script, "failed", script.log)]
    /\ UNCHANGED <<habitEntries, prayerEntries>>
    /\ ScriptFrame

\* The summary of cleanupHabitEntries, then the query and the grouping of
\* cleanupPrayerEntries.
FinishHabits ==
    /\ script.pc = "habits"
    /\ script.queue = <<>>
    /\ \E q \in DeletionQueues("prayer", prayerEntries) :
          script' = [script EXCEPT
                       !.pc = "prayers", !.kind = "prayer", !.queue = q,
                       !.total = Cardinality(prayerEntries),
                       !.duplicateCount = 0, !.deletedCount = 0,
                       !.log = Append(@, Summary(script)),
                       !.loaded = prayerEntries]
    /\ UNCHANGED <<habitEntries, prayerEntries>>
    /\ ScriptFrame

\* The summary of cleanupPrayerEntries, then process.exit(0).
FinishPrayers ==
    /\ script.pc = "prayers"
    /\ script.queue = <<>>
    /\ script' = [script EXCEPT
                    !.pc = "done",
                    !.log = Append(@, Summary(script)),
                    !.runs = Finished(script, "done",
                                      Append(script.log, Summary(script)))]
    /\ UNCHANGED <<habitEntries, prayerEntries>>
    /\ ScriptFrame

\* The stores the script is run on: records of one habit and day of user
\* u1 written with three different dates (two of them created at the same
\* time), a record of another day, two records of user u2, and prayer
\* records of which two are of one slot and day.
CleanupHabitPool ==
    {[id |-> 1, userId |-> "u1", habitId |-> "h1", date |-> FirstTick,
      completed |-> TRUE, createdAt |-> 3],
     [id |-> 2, userId |-> "u1", habitId |-> "h1", date |-> FirstTick + 1,
      completed |-> TRUE, createdAt |-> 3],
     [id |-> 3, userId |-> "u1", habitId |-> "h1", date |-> FirstTick + 2,
      completed |-> TRUE, createdAt |-> 1],
     [id |-> 4, userId |-> "u1", habitId |-> "h1",
      date |-> FirstTick + TicksPerDay, completed |-> TRUE, createdAt |-> 2],
     [id |-> 5, userId |-> "u2", habitId |-> "h1", date |-> FirstTick,
      completed |-> TRUE, createdAt |-> 1],
     [id |-> 6, userId |-> "u2", habitId |-> "h1", date |-> FirstTick + 1,
      completed |-> TRUE, createdAt |-> 2]}

CleanupPrayerPool ==
    {[id |-> 11, userId |-> "u1", prayerType |-> "fajr", date |-> FirstTick,
      prayed |-> TRUE, createdAt |-> 1],
     [id |-> 12, userId |-> "u1", prayerType |-> "fajr",
      date |-> FirstTick + 1, prayed |-> FALSE, createdAt |-> 2],
     [id |-> 13, userId |-> "u1", prayerType |-> "zuhr", date |-> FirstTick,
      prayed |-> TRUE, createdAt |-> 3]}

InitCleanup ==
    /\ tz = [p \in Procs |-> UTC]
    /\ habits = LegacyHabits
    /\ habitEntries \in SUBSET CleanupHabitPool
    /\ prayerEntries \in SUBSET CleanupPrayerPool
    /\ streaks = {}
    /\ nextId = 1
    /\ script = NoScript
    /\ pc = [p \in Procs |-> "idle"]
    /\ loc = [p \in Procs |-> NoLoc]
    /\ alone = [p \in Procs |-> TRUE]
    /\ last = {}
    /\ race = {}
    /\ req = NoReq
    /\ ans = NoAns

NextCleanup ==
    \/ MainStart
    \/ MainConnectFails
    \/ CleanupDelete
    \/ CleanupDeleteFails
    \/ FinishHabits
    \/ FinishPrayers

SpecCleanup == InitCleanup /\ [][NextCleanup]_vars

\* ============================================ the script on a live store
\* The script started while a server process answers toggles.  The store
\* holds records from before the routes normalized dates as they do now:
\* two records of habit h1 on UTC day 1 (one at UTC midnight, one at the
\* midnight of a zone west of UTC), one of day 2, and likewise for the fajr
\* slot.  Their _ids are older than any the model hands out.
LiveHabitPool ==
    {[id |-> 0 - 3, userId |-> "u1", habitId |-> "h1", date |-> FirstTick,
      completed |-> TRUE, createdAt |-> 0 - 3],
     [id |-> 0 - 2, userId |-> "u1", habitId |-> "h1", date |-> FirstTick + 1,
      completed |-> TRUE, createdAt |-> 0 - 2],
     [id |-> 0 - 1, userId |-> "u1", habitId |-> "h1",
      date |-> FirstTick + TicksPerDay + 1, completed |-> TRUE,
      createdAt |-> 0 - 1]}

LivePrayerPool ==
    {[id |-> 0 - 13, userId |-> "u1", prayerType |-> "fajr",
      date |-> FirstTick, prayed |-> TRUE, createdAt |-> 0 - 13],
     [id |-> 0 - 12, userId |-> "u1", prayerType |-> "fajr",
      date |-> FirstTick + 1, prayed |-> TRUE, createdAt |-> 0 - 12],
     [id |-> 0 - 11, userId |-> "u1", prayerType |-> "isha",
      date |-> FirstTick + TicksPerDay, prayed |-> TRUE,
      createdAt |-> 0 - 11]}

InitLive ==
    /\ tz \in {[p \in Procs |-> UTC],
               [p \in Procs |-> IF p = Solo THEN West ELSE UTC]}
    /\ habits = LegacyHabits
    /\ habitEntries \in {LiveHabitPool, {}}
    /\ prayerEntries \in {LivePrayerPool, {}}
    /\ streaks = {}
    /\ nextId = 1
    /\ script = NoScript
    /\ pc = [p \in Procs |-> "idle"]
    /\ loc = [p \in Procs |-> NoLoc]
    /\ alone = [p \in Procs |-> TRUE]
    /\ last = {}
    /\ race = {}
    /\ req = NoReq
    /\ ans = NoAns

\* The store answers every call of the script (its failures are the
\* matter of SpecCleanup); process Solo serves toggles of user u1.
NextLive ==
    \/ MainStart
    \/ CleanupDelete
    \/ FinishHabits
    \/ FinishPrayers
    \/ \E d \in ToggleInstants : HabitToggleStart(Solo, "u1", "h1", d)
    \/ HabitToggleFind(Solo)
    \/ HabitToggleWrite(Solo)
    \/ \E d \in ToggleInstants : PrayerToggleFind(Solo, "u1", "fajr", d)
    \/ PrayerToggleWrite(Solo)

SpecLive == InitLive /\ [][NextLive]_vars

\* ============================================= PUT /streaks/:milestone
\* The path parameter as the characters the client sent.
Digits == <<"0", "1", "2", "3", "4", "5", "6", "7", "8", "9">>
IsDigit(c) == \E i \in 1 .. 10 : Digits[i] = c
DigitValue(c) == (CHOOSE i \in 1 .. 10 : Digits[i] = c) - 1

\* The value of the longest prefix of decimal digits of s from position i
\* on, acc being the value read so far.
RECURSIVE DigitsPrefix(_, _, _)
DigitsPrefix(s, i, acc) ==
    IF i > Len(s) \/ ~IsDigit(s[i]) THEN acc
    ELSE DigitsPrefix(s, i + 1, 10 * acc + DigitValue(s[i]))

\* parseInt(string): an optional sign, then the longest prefix of digits;
\* NaN when there is no digit.
ParseInt(s) ==
    LET signed == Len(s) > 0 /\ s[1] \in {"-", "+"}
        first == IF signed THEN 2 ELSE 1
    IN IF first > Len(s) \/ ~IsDigit(s[first]) THEN NaN
       ELSE IF signed /\ s[1] = "-" THEN 0 - DigitsPrefix(s, first, 0)
       ELSE DigitsPrefix(s, first, 0)

validMilestones == {30, 50, 75, 100, 150, 200, 250, 300, 365}

\* Mutant: every parsed milestone is let through.
ValidMilestone_Any(milestone) == TRUE

\* validMilestones.includes(milestone)
ValidMilestone(milestone) == milestone \in validMilestones

\* body(...).optional().trim(), then `value || ''`: a field that is absent
\* (the empty set) or blank gives the empty string.
Trim(str) == IF str = " " THEN "" ELSE IF str = " gift " THEN "gift" ELSE str
OrEmpty(opt) == IF opt = {} THEN "" ELSE Trim(CHOOSE x \in opt : TRUE)

\* Streak.findOne on the fields of the filter { userId, milestone }.
FindStreak(coll, u, m) == {x \in coll : x.userId = u /\ x.milestone = m}

\* Mutant: the collection has no unique index.
StreakKeyTaken_NoIndex(coll, u, m) == FALSE

\* Unique index { userId, milestone } of Streak.
StreakKeyTaken(coll, u, m) == FindStreak(coll, u, m) # {}

\* The instants new Date() may give a handler that starts now: not before
\* any time stamp in the store or in a handler under way.
MaxClock == 2
ClockNow ==
    {t \in 1 .. MaxClock :
        /\ \A x \in streaks : t >= x.updatedAt
        /\ \A q \in Procs : pc[q] = "ackFound" => t >= loc[q].now}

\* The update document of findOneAndUpdate, applied to document x.
ApplyUpdate(x, l) ==
    [x EXCEPT !.achievedAt = l.date, !.reward = l.reward, !.notes = l.notes,
              !.updatedAt = l.now]

\* What Streak.findOneAndUpdate(filter, update, { upsert: true, new: true })
\* may do once its query has run: update the document found; insert one
\* when none was found; and when none was found but the key has been
\* inserted since, either fail on the unique index (the catch block
\* answers 500) or be retried by the server and update that document.
AckEffects(coll, l, id) ==
    IF l.existing # {}
    THEN {[streaks |-> {IF x.id = (CHOOSE e \in l.existing : TRUE).id
                        THEN ApplyUpdate(x, l) ELSE x : x \in coll},
           status |-> 200, used |-> FALSE]}
    ELSE IF StreakKeyTaken(coll, l.userId, l.tid)
    THEN {[streaks |-> coll, status |-> 500, used |-> FALSE],
          [streaks |-> {IF x.userId = l.userId /\ x.milestone = l.tid
                        THEN ApplyUpdate(x, l) ELSE x : x \in coll},
           status |-> 200, used |-> FALSE]}
    ELSE {[streaks |-> coll \cup
              {[id |-> id, userId |-> l.userId, milestone |-> l.tid,
                achievedAt |-> l.date, reward |-> l.reward,
                notes |-> l.notes, createdAt |-> l.now, updatedAt |-> l.now]},
           status |-> 200, used |-> TRUE]}

\* The record of the acknowledge call that completed last (history).
AckRecord(milestone, status) ==
    {[kind |-> "ack", milestone |-> milestone, status |-> status]}

\* The handler up to the query of findOneAndUpdate: parseInt, the check
\* against validMilestones (400 when it fails), the update document.
AckStart(p, u, param, body) ==
    /\ pc[p] = "idle"
    /\ LET milestone == ParseInt(param)
       IN IF ~ValidMilestone(milestone)
          THEN /\ last' = AckRecord(milestone, 400)
               /\ UNCHANGED <<pc, loc>>
          ELSE \E now \in ClockNow :
                  /\ pc' = [pc EXCEPT ![p] = "ackFound"]
                  /\ loc' = [loc EXCEPT ![p] =
                       [userId |-> u, tid |-> milestone,
                        date |-> IF body.achievedAt = {} THEN now
                                 ELSE CHOOSE t \in body.achievedAt : TRUE,
                        existing |-> FindStreak(streaks, u, milestone),
                        supplied |-> body.achievedAt # {},
                        reward |-> OrEmpty(body.reward),
                        notes |-> OrEmpty(body.notes),
                        now |-> now]]
                  /\ UNCHANGED last
    /\ UNCHANGED <<tz, script, streaks, habits, habitEntries, prayerEntries,
                   nextId, alone, race, req, ans>>

\* The write of findOneAndUpdate and the answer.
AckWrite(p) ==
    /\ pc[p] = "ackFound"
    /\ StreakKeyTaken(streaks, loc[p].userId, loc[p].tid) \/ nextId <= MaxId
    /\ \E eff \in AckEffects(streaks, loc[p], nextId) :
          /\ streaks' = eff.streaks
          /\ nextId' = IF eff.used THEN nextId + 1 ELSE nextId
          /\ last' = AckRecord(loc[p].tid, eff.status)
    /\ pc' = [pc EXCEPT ![p] = "idle"]
    /\ loc' = [loc EXCEPT ![p] = NoLoc]
    /\ UNCHANGED <<tz, script, habits, habitEntries, prayerEntries, alone,
                   race, req, ans>>

\* The requests explored: milestone 30 written in two ways, numbers that
\* are no milestone of the habit routes, and no number; a body with no
\* field, with a reward, or with a time and notes.
AckParams == {<<"3", "0">>, <<"3", "0", "x">>, <<"7">>, <<"3", "1">>,
              <<"x">>}
AckBodies ==
    {[achievedAt |-> {}, reward |-> {}, notes |-> {}],
     [achievedAt |-> {}, reward |-> {" gift "}, notes |-> {}],
     [achievedAt |-> {0}, reward |-> {}, notes |-> {"note"}]}

InitAck ==
    /\ tz = [p \in Procs |-> UTC]
    /\ habits = {}
    /\ habitEntries = {}
    /\ prayerEntries = {}
    /\ streaks = {}
    /\ nextId = 1
    /\ script = NoScript
    /\ pc = [p \in Procs |-> "idle"]
    /\ loc = [p \in Procs |-> NoLoc]
    /\ alone = [p \in Procs |-> TRUE]
    /\ last = {}
    /\ race = {}
    /\ req = NoReq
    /\ ans = NoAns

\* Process Solo serves user u1, the other process both users.
AckUsers(p) == IF p = Solo THEN {"u1"} ELSE Users

NextAck ==
    \/ \E p \in Procs :
          \E u \in AckUsers(p), param \in AckParams, body \in AckBodies :
             AckStart(p, u, param, body)
    \/ \E p \in Procs : AckWrite(p)

SpecAck == InitAck /\ [][NextAck]_vars

\* ============================================== DELETE /api/habits/:id
\* The answer of a delete call, in the form of the toggle records.
DeleteRecord(u, h, status) ==
    {[kind |-> "delete", userId |-> u, tid |-> h, date |-> 0,
      status |-> status, value |-> FALSE, alone |-> TRUE, found |-> None,
      before |-> None, orig |-> None]}

\* Habit.findOne({ _id, userId }): 404 when the habit is not the user's.
HabitDeleteStart(p, u, h) ==
    /\ pc[p] = "idle"
    /\ IF FindHabit(habits, h, u) = {}
       THEN /\ last' = DeleteRecord(u, h, 404)
            /\ UNCHANGED <<pc, loc, alone>>
       ELSE /\ pc' = [pc EXCEPT ![p] = "deleteFound"]
            /\ loc' = [loc EXCEPT ![p] =
                         [userId |-> u, tid |-> h, date |-> 0,
                          existing |-> {}]]
            /\ alone' = [alone EXCEPT ![p] = TRUE]
            /\ UNCHANGED last
    /\ UNCHANGED <<tz, script, streaks, habits, habitEntries, prayerEntries,
                   nextId, race, req, ans>>

\* HabitEntry.deleteMany({ habitId })
HabitDeleteEntries(p) ==
    /\ pc[p] = "deleteFound"
    /\ habitEntries' = {e \in habitEntries : e.habitId # loc[p].tid}
    /\ pc' = [pc EXCEPT ![p] = "entriesDeleted"]
    /\ alone' = [q \in Procs |-> IF q = p \/ pc[q] = "idle" THEN alone[q]
                                 ELSE FALSE]
    /\ UNCHANGED <<tz, script, streaks, habits, prayerEntries, nextId, loc,
                   last, race, req, ans>>

\* Habit.findByIdAndDelete(id), then 204.
HabitDeleteDoc(p) ==
    /\ pc[p] = "entriesDeleted"
    /\ habits' = {x \in habits : x.id # loc[p].tid}
    /\ last' = DeleteRecord(loc[p].userId, loc[p].tid, 204)
    /\ pc' = [pc EXCEPT ![p] = "idle"]
    /\ loc' = [loc EXCEPT ![p] = NoLoc]
    /\ UNCHANGED <<tz, script, streaks, habitEntries, prayerEntries, nextId,
                   alone, race, req, ans>>

\* Two server processes answering toggles and deletes of habit h1 for its
\* owner u1 and for user u2, on a store that may hold records of the habit.
DeleteHabitPool ==
    {[id |-> 0, userId |-> "u1", habitId |-> "h1", date |-> FirstTick,
      completed |-> TRUE, createdAt |-> 0],
     [id |-> 0 - 1, userId |-> "u1", habitId |-> "h1",
      date |-> FirstTick + TicksPerDay, completed |-> TRUE,
      createdAt |-> 0 - 1]}

InitDelete ==
    /\ tz \in Deployments
    /\ habits = LegacyHabits
    /\ habitEntries \in SUBSET DeleteHabitPool
    /\ prayerEntries = {}
    /\ streaks = {}
    /\ nextId = 1
    /\ script = NoScript
    /\ pc = [p \in Procs |-> "idle"]
    /\ loc = [p \in Procs |-> NoLoc]
    /\ alone = [p \in Procs |-> TRUE]
    /\ last = {}
    /\ race = {}
    /\ req = NoReq
    /\ ans = NoAns

NextDelete ==
    \/ \E p \in Procs, u \in Users, h \in HabitIds, d \in ToggleInstants :
          HabitToggleStart(p, u, h, d)
    \/ \E p \in Procs : HabitToggleFind(p)
    \/ \E p \in Procs : HabitToggleWrite(p)
    \/ \E p \in Procs, u \in Users, h \in HabitIds : HabitDeleteStart(p, u, h)
    \/ \E p \in Procs : HabitDeleteEntries(p)
    \/ \E p \in Procs : HabitDeleteDoc(p)

SpecDelete == InitDelete /\ [][NextDelete]_vars

\* ================================== toggles followed by daily statistics
\* A client asks the daily statistics of user u1 over a range.
DailyRequest(op, startIn, endIn) ==
    /\ req' = [op |-> op, userId |-> "u1", start |-> startIn, end |-> endIn]
    /\ ans' = NoAns
    /\ UNCHANGED <<tz, script, streaks, habits, habitEntries, prayerEntries,
                   nextId, pc, loc, alone, last, race>>

\* The dates the ranges are made of: two instants of day 1 and the first
\* of day 2.
RangeInstants == ToggleInstants \cup {FirstTick + TicksPerDay}

\* One server process in a zone with one offset throughout (UTC, west or
\* east of it), a store that is empty at first, habit h1 of user u1.
InitAgree ==
    /\ tz \in {[p \in Procs |-> IF p = Solo THEN z ELSE UTC] :
                 z \in {UTC, West, East}}
    /\ habits = LegacyHabits
    /\ habitEntries = {}
    /\ prayerEntries = {}
    /\ streaks = {}
    /\ nextId = 1
    /\ script = NoScript
    /\ pc = [p \in Procs |-> "idle"]
    /\ loc = [p \in Procs |-> NoLoc]
    /\ alone = [p \in Procs |-> TRUE]
    /\ last = {}
    /\ race = {}
    /\ req = NoReq
    /\ ans = NoAns

NextAgree ==
    \/ \E d \in ToggleInstants : HabitToggleStart(Solo, "u1", "h1", d)
    \/ HabitToggleFind(Solo)
    \/ HabitToggleWrite(Solo)
    \/ \E pt \in ToggledPrayers, d \in ToggleInstants :
          PrayerToggleFind(Solo, "u1", pt, d)
    \/ PrayerToggleWrite(Solo)
    \/ \E op \in {"habitDaily", "prayerDaily"}, s \in RangeInstants,
          e \in RangeInstants : DailyRequest(op, s, e)
    \/ ServeHabitDaily
    \/ ServePrayerDaily

SpecAgree == InitAgree /\ [][NextAgree]_vars

\* ================================================================= claims

\* C1: in every state reachable from the empty store by toggles of several
\* server processes, the store holds at most one completion record per
\* (userId, trackableId, canonical day), the canonical day of a record
\* being the UTC date of its `date`.
C1_OnePerCanonicalDay ==
    /\ \A e1, e2 \in habitEntries :
          (/\ e1.userId = e2.userId /\ e1.habitId = e2.habitId
           /\ UTCMidnight(e1.date) = UTCMidnight(e2.date)) => e1 = e2
    /\ \A e1, e2 \in prayerEntries :
          (/\ e1.userId = e2.userId /\ e1.prayerType = e2.prayerType
           /\ UTCMidnight(e1.date) = UTCMidnight(e2.date)) => e1 = e2

\* C2: two toggle calls on the same key whose reads and writes interleave
\* both answer with a state (neither fails), and their answers and the
\* final status of the key are those of running the calls one after the
\* other: one answers on and the other off, and the key ends as it began.
C2_Serialized ==
    \A r \in race :
        r.done = 2 =>
            /\ r.ok
            /\ r.vals = {TRUE, FALSE}
            /\ OnOff(StatusIn(habitEntries, prayerEntries, r.kind, r.userId,
                              r.tid, r.date)) = r.pre

\* C4: a habit toggle that runs alone creates exactly one record with
\* completed = true and answers true when the key has no record, and
\* otherwise deletes the record of the key and answers false, whatever the
\* record's completed flag is.
C4_HabitToggleAlone ==
    [][\A p \in Procs :
         (pc[p] = "entryFound" /\ alone[p] /\ pc'[p] = "idle") =>
           LET l == loc[p]
               hit == FindHabitEntry(habitEntries, l.userId, l.tid, l.date)
           IN IF hit = {}
              THEN /\ \E e \in habitEntries' :
                        /\ e \notin habitEntries
                        /\ habitEntries' = habitEntries \cup {e}
                        /\ e.userId = l.userId /\ e.habitId = l.tid
                        /\ e.date = l.date /\ e.completed
                   /\ \A r \in last' : r.status = 200 /\ r.value
              ELSE /\ habitEntries' = habitEntries \ hit
                   /\ \A r \in last' : r.status = 200 /\ ~r.value]_vars

\* A habit toggle ran alone on a key whose record had completed = false.
C4_Witness ==
    \E r \in last : /\ r.kind = "habit" /\ r.alone /\ r.status = 200
                    /\ r.found = "false" /\ ~r.value
                    /\ ~HabitKeyTaken(habitEntries, r.userId, r.tid, r.date)

\* C5: a prayer toggle that runs alone sets prayed to true on the record of
\* the key, keeps that record and answers true when the record has
\* prayed = false; deletes the record and answers false when it has
\* prayed = true; creates a record with prayed = true and answers true when
\* the key has no record.
C5_PrayerToggleAlone ==
    [][\A p \in Procs :
         (pc[p] = "prayerFound" /\ alone[p] /\ pc'[p] = "idle") =>
           LET l == loc[p]
               hit == FindPrayerEntry(prayerEntries, l.userId, l.tid, l.date)
           IN IF hit = {}
              THEN /\ \E e \in prayerEntries' :
                        /\ e \notin prayerEntries
                        /\ prayerEntries' = prayerEntries \cup {e}
                        /\ e.userId = l.userId /\ e.prayerType = l.tid
                        /\ e.date = l.date /\ e.prayed
                   /\ \A r \in last' : r.status = 200 /\ r.value
              ELSE IF \E e \in hit : e.prayed
              THEN /\ prayerEntries' = prayerEntries \ hit
                   /\ \A r \in last' : r.status = 200 /\ ~r.value
              ELSE /\ prayerEntries' =
                        (prayerEntries \ hit) \cup
                        {[e EXCEPT !.prayed = TRUE] : e \in hit}
                   /\ \A r \in last' : r.status = 200 /\ r.value]_vars

\* A prayer toggle ran alone on a record with prayed = false and kept it.
C5_Witness ==
    \E r \in last : /\ r.kind = "prayer" /\ r.alone /\ r.status = 200
                    /\ r.found = "false" /\ r.value
                    /\ \E e \in prayerEntries :
                          /\ e.userId = r.userId /\ e.prayerType = r.tid
                          /\ e.date = r.date /\ e.prayed /\ e.id < 1

\* C6: after two toggles on the same key in immediate succession, each run
\* alone with nothing written in between, the completion status of the key
\* is the one it had before the first of them.
C6_RoundTrip ==
    \A r \in last :
        r.orig # None =>
            OnOff(StatusIn(habitEntries, prayerEntries, r.kind, r.userId,
                           r.tid, r.date)) = r.orig

\* Two toggles in succession on a prayer record that began with
\* prayed = false.
C6_Witness ==
    \E r \in last : /\ r.orig = "off" /\ r.kind = "prayer"
                    /\ r.found = "true" /\ ~r.value

\* C3: for timestamps t1, t2 of the same UTC calendar date, the date
\* normalization of the habit routes and the one of the prayer routes map
\* both to the UTC midnight of that date, in whatever zone the process runs.
C3_SameCanonicalDay ==
    ans.op = "normalize" =>
        /\ ans.habit1 = UTCMidnight(req.t1)
        /\ ans.habit2 = UTCMidnight(req.t1)
        /\ ans.prayer1 = UTCMidnight(req.t1)
        /\ ans.prayer2 = UTCMidnight(req.t1)

\* C7: dailyStats over startDay <= endDay answers exactly one entry per
\* calendar day of the inclusive range, ascending, none skipped and none
\* repeated, also across a daylight-saving transition: for prayers the days
\* are the UTC days from that of startDay to that of endDay, for habits
\* (with an active habit) the local days from that of startDay to that of
\* endDay.
C7_OneEntryPerDay ==
    /\ ans.op = "prayerDaily" =>
          LET first == DayOf(req.start)
              final == DayOf(req.end)
          IN first <= final =>
               /\ Len(ans.days) = final - first + 1
               /\ \A i \in 1 .. Len(ans.days) :
                     ans.days[i].date = (first + i - 1) * TicksPerDay
    /\ (ans.op = "habitDaily" /\ ActiveHabits(habits, req.userId) # {}) =>
          LET first == DayOf(LocalTime(tz[Solo], req.start))
              final == DayOf(LocalTime(tz[Solo], req.end))
          IN first <= final =>
               /\ Len(ans.days) = final - first + 1
               /\ \A i \in 1 .. Len(ans.days) :
                     DayOf(LocalTime(tz[Solo], ans.days[i].date))
                       = first + i - 1

\* C8: in every day entry of habit dailyStats, total is the number of
\* active habits (> 0), completedCount is the number of active habits with
\* a record of the user on that day (so at most total), percentage is
\* completedCount / total * 100 rounded to the nearest integer, and
\* isSuccessDay holds exactly when percentage >= 75; 3 of 4 gives 75 and
\* true, 2 of 4 gives 50 and false.
C8_HabitDayCounts ==
    ans.op = "habitDaily" =>
      \A i \in 1 .. Len(ans.days) :
        LET d == ans.days[i]
            active == {x.id : x \in ActiveHabits(habits, req.userId)}
            on == {h \in active :
                     \E e \in habitEntries :
                        /\ e.userId = req.userId /\ e.habitId = h
                        /\ HabitNormalizeDate(tz[Solo], e.date) = d.date}
        IN /\ d.total = Cardinality(active) /\ d.total > 0
           /\ d.completedCount = Cardinality(on)
           /\ d.completedCount <= d.total
           /\ 2 * d.total * d.percentage <= 200 * d.completedCount + d.total
           /\ 2 * d.total * d.percentage > 200 * d.completedCount - d.total
           /\ d.isSuccessDay <=> d.percentage >= 75
           /\ (d.total = 4 /\ d.completedCount = 3) =>
                 (d.percentage = 75 /\ d.isSuccessDay)
           /\ (d.total = 4 /\ d.completedCount = 2) =>
                 (d.percentage = 50 /\ ~d.isSuccessDay)

\* A day with 3 of 4 active habits done, one of them by two records, and
\* with a record of a habit that no longer exists.
C8_Witness ==
    /\ ans.op = "habitDaily"
    /\ \E i \in 1 .. Len(ans.days) :
          /\ ans.days[i].total = 4 /\ ans.days[i].completedCount = 3
          /\ ans.days[i].isSuccessDay
          /\ \E e1, e2 \in habitEntries :
                /\ e1.habitId = "h1" /\ e2.habitId = "h1" /\ e1 # e2
                /\ HabitNormalizeDate(tz[Solo], e1.date) = ans.days[i].date
                /\ HabitNormalizeDate(tz[Solo], e2.date) = ans.days[i].date
          /\ \E e \in habitEntries :
                /\ e.habitId = "h0"
                /\ HabitNormalizeDate(tz[Solo], e.date) = ans.days[i].date

\* C9: in every day entry of prayer dailyStats, total is 5, completedCount
\* is the number of distinct prayer slots with a record of the user with
\* prayed = true on that UTC day (0..5, also with duplicate records), and
\* isSuccessDay holds exactly when completedCount is 5.
C9_PrayerDayCounts ==
    ans.op = "prayerDaily" =>
      \A i \in 1 .. Len(ans.days) :
        LET d == ans.days[i]
            on == {pt \in PRAYER_TYPES :
                     \E e \in prayerEntries :
                        /\ e.userId = req.userId /\ e.prayerType = pt
                        /\ e.prayed /\ UTCMidnight(e.date) = d.date}
        IN /\ d.total = 5
           /\ d.completedCount = Cardinality(on)
           /\ d.completedCount \in 0 .. 5
           /\ d.isSuccessDay <=> d.completedCount = 5

\* C8 and C9 in a process whose zone has one offset throughout, on records
\* dated at a midnight of the route's own normalization (auxiliary).
FixedZoneDayCounts ==
    tz[Solo].before = tz[Solo].after =>
        /\ C8_HabitDayCounts
        /\ (\A e \in prayerEntries : e.date = UTCMidnight(e.date)) =>
              C9_PrayerDayCounts

\* C10: with no active habit, habit dailyStats answers an empty day list,
\* the habit monthly overview answers zero successDays, totalDays and
\* percentage for every month, and the habit streak answers zero streaks
\* and no milestones; and no habit or prayer aggregation divides by zero or
\* reports a percentage that is NaN (or infinite).
C10_ZeroTotal ==
    /\ (ans.op = "habitDaily" /\ ActiveHabits(habits, req.userId) = {}) =>
          ans.days = <<>>
    /\ (ans.op = "habitMonthly" /\ ActiveHabits(habits, req.userId) = {}) =>
          /\ Len(ans.months) = MonthsPerYear
          /\ \A m \in 1 .. Len(ans.months) :
                /\ ans.months[m].successDays = 0
                /\ ans.months[m].totalDays = 0
                /\ ans.months[m].percentage = 0
    /\ (ans.op = "habitStreak" /\ ActiveHabits(habits, req.userId) = {}) =>
          /\ ans.streak.currentStreak = 0
          /\ ans.streak.longestStreak = 0
          /\ ans.streak.milestones = {}
    /\ ans.op \in {"habitDaily", "prayerDaily"} =>
          \A i \in 1 .. Len(ans.days) :
              /\ ans.days[i].percentage \notin {NaN, Infinity}
              /\ 0 \notin ans.days[i].divisors
    /\ ans.op \in {"habitMonthly", "prayerMonthly"} =>
          \A m \in 1 .. Len(ans.months) :
              /\ ans.months[m].percentage \notin {NaN, Infinity}
              /\ 0 \notin ans.months[m].divisors
    /\ ans.op \in {"habitStreak", "prayerStreak"} =>
          0 \notin ans.streak.divisors

\* The monthly overview was answered for a user whose habits are all
\* inactive and who has records in the store.
C10_Witness ==
    /\ ans.op = "habitMonthly"
    /\ ActiveHabits(habits, req.userId) = {}
    /\ \E e \in habitEntries : e.userId = req.userId
    /\ \A m \in 1 .. Len(ans.months) : ans.months[m].percentage = 0

\* The number of local calendar days of month `month` (0-based) of `year`
\* that are not after the local day of `now`.
DaysUpToToday(z, year, month, now) ==
    LET first == FirstOfMonth(year, month)
        final == first + DaysPerMonth - 1
        today == DayOf(LocalTime(z, now))
    IN IF first > today THEN 0
       ELSE IF final <= today THEN DaysPerMonth
       ELSE today - first + 1

\* C11: the monthly overview (habits with an active habit, and prayers)
\* answers one entry per month of the year; totalDays of a month is the
\* number of its calendar days that are not after today (0, with
\* successDays 0, for a month that starts after today; the whole month for
\* a month in the past), and percentage is successDays / totalDays * 100
\* rounded, or 0 when totalDays is 0.
C11_MonthlyTotals ==
    ((ans.op = "habitMonthly" /\ ActiveHabits(habits, req.userId) # {})
       \/ ans.op = "prayerMonthly") =>
      /\ Len(ans.months) = MonthsPerYear
      /\ \A m \in 1 .. Len(ans.months) :
           LET e == ans.months[m]
           IN /\ e.totalDays =
                   DaysUpToToday(tz[Solo], req.year, m - 1, req.now)
              /\ e.successDays <= e.totalDays
              /\ e.totalDays = 0 => (e.successDays = 0 /\ e.percentage = 0)
              /\ e.totalDays > 0 =>
                   /\ 2 * e.totalDays * e.percentage
                        <= 200 * e.successDays + e.totalDays
                   /\ 2 * e.totalDays * e.percentage
                        > 200 * e.successDays - e.totalDays

\* C11 in a process whose zone has one offset throughout (auxiliary).
FixedZoneMonthlyTotals ==
    tz[Solo].before = tz[Solo].after => C11_MonthlyTotals

\* The local calendar days of a month that are not after the local day of
\* `now`.
MonthDays(z, year, month, now) ==
    {d \in FirstOfMonth(year, month) ..
             FirstOfMonth(year, month) + DaysPerMonth - 1 :
        d <= DayOf(LocalTime(z, now))}

\* dailyStats over [d, d] reports a success day, d being the local midnight
\* of calendar day d for habits and its UTC midnight for prayers.
HabitDailySuccess(z, u, d) ==
    LET days == HabitDailyStats(z, u, LocalToUTC(z, d * TicksPerDay),
                                LocalToUTC(z, d * TicksPerDay))
    IN \E i \in 1 .. Len(days) : days[i].isSuccessDay

PrayerDailySuccess(z, u, d) ==
    LET days == PrayerDailyStats(z, u, d * TicksPerDay, d * TicksPerDay)
    IN \E i \in 1 .. Len(days) : days[i].isSuccessDay

\* C12: for every month, successDays of the habit and of the prayer monthly
\* overview is the number of days of the month, up to and including today,
\* for which dailyStats over that one day reports a success day on the
\* same store.
C12_MonthlyMatchesDaily ==
    /\ ans.op = "habitMonthly" =>
          \A m \in 1 .. Len(ans.months) :
             ans.months[m].successDays =
               Cardinality({d \in MonthDays(tz[Solo], req.year, m - 1, req.now) :
                              HabitDailySuccess(tz[Solo], req.userId, d)})
    /\ ans.op = "prayerMonthly" =>
          \A m \in 1 .. Len(ans.months) :
             ans.months[m].successDays =
               Cardinality({d \in MonthDays(tz[Solo], req.year, m - 1, req.now) :
                              PrayerDailySuccess(tz[Solo], req.userId, d)})

\* Streaks of a set of success days, as the contract defines them: the
\* run of success days that ends today, and the longest run among the
\* StreakWindow days that end today.
RefCurrent(success, today) ==
    CHOOSE k \in 0 .. StreakWindow :
        /\ \A j \in 0 .. k - 1 : today - j \in success
        /\ k = StreakWindow \/ today - k \notin success

RefLongest(success, today) ==
    CHOOSE k \in 0 .. StreakWindow :
        /\ \E a \in today - StreakWindow + 1 .. today - k + 1 :
              \A d \in a .. a + k - 1 : d \in success
        /\ \A a \in today - StreakWindow + 1 .. today - k :
              \E d \in a .. a + k : d \notin success

\* The days the streak handlers may look at, and those of them that
\* dailyStats over the one day reports a success (for one habit: done).
CheckedDays == (0 - 1) .. StreakToday + 2
HabitSuccessDays(z, u) == {d \in CheckedDays : HabitDailySuccess(z, u, d)}
PrayerSuccessDays(z, u) == {d \in CheckedDays : PrayerDailySuccess(z, u, d)}
HabitDoneDays(z, u, h) ==
    {d \in CheckedDays :
       LET days == HabitDailyStats(z, u, LocalToUTC(z, d * TicksPerDay),
                                   LocalToUTC(z, d * TicksPerDay))
       IN \E i \in 1 .. Len(days) : h \in days[i].statuses}

LocalToday(z, now) == DayOf(LocalTime(z, now))

\* C13: for the aggregate habit streak, the per-habit streak and the prayer
\* streak, current is the number of consecutive success days counted
\* backward from today until the first day that is not one (0 when today
\* is not a success day); success days today, yesterday and the day
\* before, none on the fourth day back and one on the fifth give 3.
C13_CurrentStreak ==
    /\ ans.op = "habitStreak" =>
          LET success == HabitSuccessDays(tz[Solo], req.userId)
              today == LocalToday(tz[Solo], req.now)
          IN /\ ans.streak.currentStreak = RefCurrent(success, today)
             /\ today \notin success => ans.streak.currentStreak = 0
    /\ ans.op = "habitStreaks" =>
          \A h \in DOMAIN ans.streaks :
             LET success == HabitDoneDays(tz[Solo], req.userId, h)
                 today == LocalToday(tz[Solo], req.now)
             IN /\ ans.streaks[h].currentStreak = RefCurrent(success, today)
                /\ today \notin success => ans.streaks[h].currentStreak = 0
                /\ success \cap (today - 4 .. today)
                     = {today, today - 1, today - 2, today - 4}
                   => ans.streaks[h].currentStreak = 3
    /\ ans.op = "prayerStreak" =>
          LET success == PrayerSuccessDays(tz[Solo], req.userId)
              today == LocalToday(tz[Solo], req.now)
          IN /\ ans.streak.currentStreak = RefCurrent(success, today)
             /\ today \notin success => ans.streak.currentStreak = 0

\* C13 and C14 for the per-habit streaks alone (auxiliary).
PerHabitStreaks ==
    ans.op = "habitStreaks" =>
       \A h \in DOMAIN ans.streaks :
          LET success == HabitDoneDays(tz[Solo], req.userId, h)
              today == LocalToday(tz[Solo], req.now)
          IN /\ ans.streaks[h].currentStreak = RefCurrent(success, today)
             /\ ans.streaks[h].longestStreak = RefLongest(success, today)

\* C14: for every streak operation, longest is the length of the longest
\* run of consecutive success days among the StreakWindow (400) days that
\* end today: at most the window, exactly the window when all its days are
\* success days, and independent of records older than the window.
C14_LongestStreak ==
    /\ ans.op = "habitStreak" =>
          LET success == HabitSuccessDays(tz[Solo], req.userId)
              today == LocalToday(tz[Solo], req.now)
          IN /\ ans.streak.longestStreak = RefLongest(success, today)
             /\ ans.streak.longestStreak <= StreakWindow
    /\ ans.op = "habitStreaks" =>
          \A h \in DOMAIN ans.streaks :
             LET success == HabitDoneDays(tz[Solo], req.userId, h)
                 today == LocalToday(tz[Solo], req.now)
             IN /\ ans.streaks[h].longestStreak = RefLongest(success, today)
                /\ ans.streaks[h].longestStreak <= StreakWindow
                /\ (today - StreakWindow + 1 .. today) \subseteq success
                     => ans.streaks[h].longestStreak = StreakWindow
    /\ ans.op = "prayerStreak" =>
          LET success == PrayerSuccessDays(tz[Solo], req.userId)
              today == LocalToday(tz[Solo], req.now)
          IN /\ ans.streak.longestStreak = RefLongest(success, today)
             /\ ans.streak.longestStreak <= StreakWindow

\* C15: for a user whose only active habit is h, on any records of that
\* user, the per-habit streaks answered for h are the aggregate habit
\* streaks.
C15_PerHabitIsAggregate ==
    (ans.op = "habitStreaks"
       /\ Cardinality(ActiveHabits(habits, req.userId)) = 1) =>
       \A h \in DOMAIN ans.streaks :
          LET agg == HabitStreakStats(tz[Solo], req.userId, req.now)
          IN /\ ans.streaks[h].currentStreak = agg.currentStreak
             /\ ans.streaks[h].longestStreak = agg.longestStreak

\* C15 on a store where every record of the user belongs to an active
\* habit (auxiliary).
PerHabitIsAggregateActiveOnly ==
    (\A e \in habitEntries :
        e.habitId \in {x.id : x \in ActiveHabits(habits, e.userId)})
      => C15_PerHabitIsAggregate

\* C16: after the script has run to its end with no failure, every group
\* (userId, habit or slot, UTC day) that had records before the run has
\* exactly one, and the record left is one whose creation time no member
\* of the group exceeds.
C16_OneNewestLeft ==
    \A i \in 1 .. Len(script.runs) :
       LET r == script.runs[i]
       IN r.outcome = "done" =>
            /\ \A g \in Groups("habit", r.pre.habit) :
                  /\ Cardinality(g \cap r.post.habit) = 1
                  /\ \A x \in g \cap r.post.habit, y \in g :
                        x.createdAt >= y.createdAt
            /\ \A g \in Groups("prayer", r.pre.prayer) :
                  /\ Cardinality(g \cap r.post.prayer) = 1
                  /\ \A x \in g \cap r.post.prayer, y \in g :
                        x.createdAt >= y.createdAt
            /\ DuplicateGroups("habit", r.post.habit) = {}
            /\ DuplicateGroups("prayer", r.post.prayer) = {}

\* A run ended well on a store with a group of three habit records and a
\* group of two prayer records.
C16_Witness ==
    \E i \in 1 .. Len(script.runs) :
       /\ script.runs[i].outcome = "done"
       /\ \E g \in Groups("habit", script.runs[i].pre.habit) :
             Cardinality(g) = 3
       /\ DuplicateGroups("prayer", script.runs[i].pre.prayer) # {}

\* C17: when the script is run twice in sequence to its end with nothing
\* in between, the second run reports no duplicate group and deletes no
\* record.
C17_Idempotent ==
    \A i \in 2 .. Len(script.runs) :
       LET r1 == script.runs[i - 1]
           r2 == script.runs[i]
       IN (r1.outcome = "done" /\ r2.outcome = "done" /\ r2.pre = r1.post)
            => /\ \A k \in 1 .. Len(r2.log) :
                     /\ r2.log[k].duplicateCount = 0
                     /\ r2.log[k].deletedCount = 0
               /\ r2.post = r2.pre

\* The second of two runs ended, the first having deleted records of both
\* kinds.
C17_Witness ==
    /\ Len(script.runs) = 2
    /\ script.runs[1].outcome = "done" /\ script.runs[2].outcome = "done"
    /\ script.runs[1].log[1].deletedCount > 1
    /\ script.runs[1].log[2].deletedCount > 0

\* C18: when the deletion of one duplicate fails, the run still brings
\* every other duplicate group down to one record and ends with the
\* summaries of both passes.
C18_FailureDoesNotAbort ==
    \A i \in 1 .. Len(script.runs) :
       LET r == script.runs[i]
       IN r.outcome = "failed" =>
            /\ Len(r.log) = 2
            /\ Cardinality(DuplicateGroups("habit", r.post.habit)
                           \cup DuplicateGroups("prayer", r.post.prayer))
                 <= 1

\* C19: when several members of a duplicate group have the same creation
\* time and no member is newer, the record the script leaves is the one of
\* them with the greatest _id.
C19_TieKeepsGreatestId ==
    \A i \in 1 .. Len(script.runs) :
       LET r == script.runs[i]
       IN r.outcome = "done" =>
            \A g \in DuplicateGroups("habit", r.pre.habit)
                       \cup DuplicateGroups("prayer", r.pre.prayer) :
               LET newest == {x \in g : \A y \in g :
                                           x.createdAt >= y.createdAt}
               IN Cardinality(newest) > 1 =>
                    \A x \in g \cap (r.post.habit \cup r.post.prayer) :
                       \A y \in newest : x.id >= y.id

\* C20: a pass reports as duplicate groups the number of groups that had
\* more than one record and as deleted the number of records it removed
\* (over those groups, size minus one); it deletes no record of a group of
\* one, creates and modifies none, and leaves the other collection, the
\* habits and the milestones as they are.
C20_CountsAndFrame ==
    [][/\ Len(script'.log) = Len(script.log) + 1 =>
            LET L == script'.log[Len(script'.log)]
                before == IF L.kind = "habit" THEN script.pre.habit
                          ELSE script.pre.prayer
                after == IF L.kind = "habit" THEN habitEntries
                         ELSE prayerEntries
            IN /\ L.duplicateCount =
                    Cardinality(DuplicateGroups(L.kind, before))
               /\ L.deletedCount = Cardinality(before \ after)
               /\ L.deletedCount =
                    Cardinality(before)
                      - Cardinality(Groups(L.kind, before))
               /\ after \subseteq before
               /\ \A g \in Groups(L.kind, before) :
                     Cardinality(g) = 1 => g \subseteq after
       /\ script.pc = "habits" => prayerEntries' = prayerEntries
       /\ script.pc = "prayers" => habitEntries' = habitEntries
       /\ script.pc \in {"habits", "prayers"} =>
             /\ habitEntries' \subseteq habitEntries
             /\ prayerEntries' \subseteq prayerEntries
             /\ habits' = habits /\ streaks' = streaks]_vars

\* A habit pass reported one duplicate group and two records deleted while
\* a record of another day and prayer records were in the store.
C20_Witness ==
    /\ Len(script.log) >= 1
    /\ script.log[1].duplicateCount = 1 /\ script.log[1].deletedCount = 2
    /\ script.log[1].remaining > 1
    /\ prayerEntries # {}

\* The key of a record in the terms of the specification: user, habit or
\* slot, and the UTC day of its date.
CanonicalKey(kind, e) ==
    <<e.userId, IF kind = "habit" THEN e.habitId ELSE e.prayerType,
      DayOf(e.date)>>

\* The records the pass under way loaded under the key of record e.
LoadedWithKey(kind, e) ==
    {x \in script.loaded : CanonicalKey(kind, x) = CanonicalKey(kind, e)}

\* C21: while a server process answers toggles, every step of the script
\* creates and modifies no record and deletes only records whose key had
\* more than one record when the pass loaded the collection; and the
\* script never stops on a record a toggle has deleted before it: every
\* run that ends, ends with the summaries of both passes.
C21_LiveReconcile ==
    /\ [](/\ script.pc # "failed"
          /\ \A i \in 1 .. Len(script.runs) :
                /\ script.runs[i].outcome = "done"
                /\ Len(script.runs[i].log) = 2)
    /\ [][script' # script =>
            /\ habitEntries' \subseteq habitEntries
            /\ prayerEntries' \subseteq prayerEntries
            /\ \A e \in habitEntries \ habitEntries' :
                  Cardinality(LoadedWithKey("habit", e)) > 1
            /\ \A e \in prayerEntries \ prayerEntries' :
                  Cardinality(LoadedWithKey("prayer", e)) > 1]_vars

\* A run ended with its summaries after one of its deletions found the
\* record already deleted by a toggle, the record of habit h1 of day 2
\* (alone under its key) still being in the store.
C21_Witness ==
    /\ script.pc = "done"
    /\ script.missed > 0
    /\ Len(script.log) = 2
    /\ \E e \in habitEntries : e.id = 0 - 1
    /\ \E r \in last : r.status = 200 /\ ~r.value

\* At most one record per key in both collections.
OnePerKey(hcoll, pcoll) ==
    /\ \A e1, e2 \in hcoll :
          CanonicalKey("habit", e1) = CanonicalKey("habit", e2) => e1 = e2
    /\ \A e1, e2 \in pcoll :
          CanonicalKey("prayer", e1) = CanonicalKey("prayer", e2) => e1 = e2

\* What the toggle in flight on process p read is what the store holds.
ReadIsCurrent(p) ==
    loc[p].existing =
       IF pc[p] = "entryFound"
       THEN FindHabitEntry(habitEntries, loc[p].userId, loc[p].tid,
                           loc[p].date)
       ELSE FindPrayerEntry(prayerEntries, loc[p].userId, loc[p].tid,
                            loc[p].date)

\* C28: on a store with records of the old normalization, once the script
\* has run to its end and the store holds one record per key, a toggle
\* (one that read the store as it is) leaves it with one record per key.
C28_ReconciledStaysUnique ==
    [][(/\ script.pc = "done"
        /\ OnePerKey(habitEntries, prayerEntries)
        /\ pc[Solo] \in {"entryFound", "prayerFound"}
        /\ pc'[Solo] = "idle"
        /\ ReadIsCurrent(Solo))
         => OnePerKey(habitEntries', prayerEntries')]_vars

\* C28 for toggles that find a record under their key with the very date
\* they normalize to (auxiliary).
ToggleOnExactDateStaysUnique ==
    [][(/\ script.pc = "done"
        /\ OnePerKey(habitEntries, prayerEntries)
        /\ pc[Solo] \in {"entryFound", "prayerFound"}
        /\ pc'[Solo] = "idle"
        /\ ReadIsCurrent(Solo)
        /\ loc[Solo].existing # {})
         => OnePerKey(habitEntries', prayerEntries')]_vars

\* The thresholds the specification allows for habits.
AllowedThresholds == {30, 50, 75, 100, 150, 200, 250, 300, 365}

\* C22: an acknowledge call whose threshold (the number its path parameter
\* reads as, if any) is not an allowed one is answered 400 and leaves the
\* milestone records as they were; no record of such a threshold is ever
\* stored.
C22_InvalidThreshold ==
    /\ [](/\ \A x \in streaks : x.milestone \in AllowedThresholds
          /\ \A r \in last :
                (r.kind = "ack" /\ r.milestone \notin AllowedThresholds)
                   => r.status = 400)
    /\ [][\A r \in last' :
             (r.kind = "ack" /\ r.status = 400) => streaks' = streaks]_vars

\* A call with the parameter "31" was answered 400 while a milestone
\* record was in the store.
C22_Witness ==
    /\ streaks # {}
    /\ \E r \in last : /\ r.kind = "ack" /\ r.milestone = 31
                       /\ r.status = 400

\* C23: in every state reached by acknowledge calls of several processes
\* there is at most one record per (userId, milestone); a call answered
\* 200 on a key that had a record leaves that record under its _id, with
\* the reward and the notes of the call, and adds none.
C23_OnePerThreshold ==
    /\ [](\A x, y \in streaks :
             (x.userId = y.userId /\ x.milestone = y.milestone) => x = y)
    /\ [][\A p \in Procs :
             (/\ pc[p] = "ackFound" /\ pc'[p] = "idle"
              /\ FindStreak(streaks, loc[p].userId, loc[p].tid) # {}
              /\ \E r \in last' : r.status = 200)
               => /\ {x.id : x \in streaks'} = {x.id : x \in streaks}
                  /\ \A x \in FindStreak(streaks', loc[p].userId,
                                         loc[p].tid) :
                        /\ x.reward = loc[p].reward
                        /\ x.notes = loc[p].notes
                        /\ x.createdAt =
                             (CHOOSE y \in streaks : y.id = x.id).createdAt
         ]_vars

\* A recorded milestone was acknowledged again with a reward, at a later
\* time, and the store holds one record.
C23_Witness ==
    /\ Cardinality(streaks) = 1
    /\ \E x \in streaks : x.reward = "gift" /\ x.updatedAt > x.createdAt
    /\ \E r \in last : r.status = 200

\* C24: a call that found a record under its key and supplies no
\* achievedAt leaves the achievedAt of that record as it was.
C24_AchievedAtKept ==
    [][\A p \in Procs :
          (/\ pc[p] = "ackFound" /\ pc'[p] = "idle"
           /\ loc[p].existing # {}
           /\ ~loc[p].supplied)
            => \A x \in FindStreak(streaks, loc[p].userId, loc[p].tid) :
                  \A y \in streaks' : y.id = x.id =>
                     y.achievedAt = x.achievedAt]_vars

\* C25: a daily statistics request whose end day is before its start day
\* is answered with an error, for habits and for prayers.
C25_InvalidRange ==
    (ans.op \in {"habitDaily", "prayerDaily"}
       /\ DayOf(req.end) < DayOf(req.start))
      => ans.status = 400

\* What such a request is answered by a process in UTC: status 200 and an
\* empty list of days (auxiliary).
EmptyRangeAnswer ==
    (ans.op \in {"habitDaily", "prayerDaily"}
       /\ DayOf(req.end) < DayOf(req.start) /\ tz[Solo] = UTC)
      => ans.status = 200 /\ ans.days = <<>>

\* User u owns habit h.
Owns(u, h) == \E x \in habits : x.id = h /\ x.userId = u

\* C26: a habit toggle for a habit that is not a habit of the calling user
\* goes no further than the lookup of the habit: it is answered 404, and so
\* is no other toggle, and the step leaves every completion record as it
\* is; no toggle is under way for such a habit, and every record in the
\* store is of a habit of its user.
C26_UnknownHabit ==
    /\ [](/\ \A e \in habitEntries : Owns(e.userId, e.habitId)
          /\ \A p \in Procs :
                pc[p] \in {"habitChecked", "entryFound"}
                   => Owns(loc[p].userId, loc[p].tid))
    /\ [][last' # last =>
            \A r \in last' :
               r.kind = "habit" =>
                  /\ r.status = 404 <=> ~Owns(r.userId, r.tid)
                  /\ r.status = 404 =>
                        UNCHANGED <<habitEntries, prayerEntries, habits>>
         ]_vars

\* User u2 was answered 404 for the habit of user u1 while u1 had a record
\* of it in the store.
C26_Witness ==
    /\ \E r \in last : /\ r.kind = "habit" /\ r.status = 404
                       /\ r.userId = "u2" /\ Owns("u1", r.tid)
    /\ \E e \in habitEntries : e.userId = "u1"

\* C30: in every state reached from the empty store by prayer toggles of
\* several processes, every prayer record has prayed = true, and no call
\* found a record with prayed = false.
C30_AllPrayed ==
    /\ \A e \in prayerEntries : e.prayed
    /\ \A p \in Procs : \A e \in loc[p].existing :
          pc[p] = "prayerFound" => e.prayed
    /\ \A r \in last : r.kind = "prayer" => r.found # "false"

\* A prayer record is in the store and the call that completed last
\* switched another prayer off.
C30_Witness ==
    /\ Cardinality(prayerEntries) = 1
    /\ \E r \in last : /\ r.kind = "prayer" /\ r.status = 200 /\ ~r.value
                       /\ r.found = "true"

\* C27: once a delete of habit h has completed and no call is under way,
\* the store holds no completion record of h.
C27_DeleteCascades ==
    (\A p \in Procs : pc[p] = "idle") =>
       \A e \in habitEntries : \E x \in habits : x.id = e.habitId

\* The deleteMany step of a delete call leaves no record of the habit
\* (auxiliary).
DeleteManyLeavesNone ==
    [][\A p \in Procs :
          (pc[p] = "deleteFound" /\ pc'[p] = "entriesDeleted")
             => \A e \in habitEntries' : e.habitId # loc[p].tid]_vars

\* The answer `a` of a daily statistics request over [startIn, endIn]
\* agrees with the toggle record r, taken as a toggle of date d: when the
\* day of d is in the range and the toggle answered true, the entry of
\* that day reports the habit or slot as completed, and no entry of
\* another day does when the store holds one record of it; when the toggle
\* answered false, the entry of that day reports it as not completed.
AgreesWith(a, r, d, startIn, endIn, records) ==
    (DayOf(startIn) <= DayOf(d) /\ DayOf(d) <= DayOf(endIn)) =>
       IF r.value
       THEN /\ \E i \in 1 .. Len(a.days) :
                  /\ DayOf(a.days[i].date) = DayOf(d)
                  /\ r.tid \in a.days[i].statuses
            /\ Cardinality(records) = 1 =>
                  \A i \in 1 .. Len(a.days) :
                     r.tid \in a.days[i].statuses
                        => DayOf(a.days[i].date) = DayOf(d)
       ELSE \A i \in 1 .. Len(a.days) :
               DayOf(a.days[i].date) = DayOf(d)
                  => r.tid \notin a.days[i].statuses

\* The step that answers a daily statistics request agrees with the
\* toggle that completed last, for every date that toggle may have been
\* called with.
ServedAgrees(kinds, zones) ==
    (ans = NoAns /\ ans' # NoAns /\ tz[Solo] \in zones) =>
       \A r \in last :
          (/\ r.status = 200 /\ r.kind \in kinds
           /\ ans'.op = (IF r.kind = "habit" THEN "habitDaily"
                         ELSE "prayerDaily"))
            => \A d \in ToggleInstants :
                  NormalizeDate(r.kind, tz[Solo], d) = r.date =>
                     AgreesWith(ans', r, d, req.start, req.end,
                        IF r.kind = "habit"
                        THEN {e \in habitEntries : e.habitId = r.tid}
                        ELSE {e \in prayerEntries : e.prayerType = r.tid})

\* C29: in a process whose zone has one offset throughout, on a store
\* built by toggles alone, the daily statistics agree with the toggle that
\* completed last, for habits and for prayers.
C29_ToggleStatsAgree ==
    [][ServedAgrees({"habit", "prayer"}, {UTC, West, East})]_vars

\* C29 for prayers in every zone, and for habits in a process in UTC
\* (auxiliary).
PrayerToggleStatsAgree ==
    [][ServedAgrees({"prayer"}, {UTC, West, East})]_vars

HabitToggleStatsAgreeInUTC ==
    [][ServedAgrees({"habit"}, {UTC})]_vars

====
